---- MODULE Spec2Model ----
(***************************************************************************)
(* Toshimo: the agent loop (AIAgent), the LLM gateway (LLMService), the    *)
(* tool registry (ToolManager) and the chat front end (PromptHandler).     *)
(*                                                                         *)
(* Text is modelled as a sequence of tokens.  A token is a record          *)
(*   [k |-> kind, c |-> chat text, a |-> actions, q |-> questions]         *)
(* whose kind is one of                                                    *)
(*   "S"   the literal <RESPONSE_START>     "E"   the literal <RESPONSE_END>*)
(*   "LB"  the character {                  "RB"  the character }          *)
(*   "WS"  one blank or tab                 "NL"  one line break           *)
(*   "TXT" a run of other characters                                       *)
(*   "CHAT" / "ACTIONS" / "QUESTIONS"  one well-formed JSON member         *)
(*         "chat": c  /  "actions": a  /  "questions": q                   *)
(***************************************************************************)
EXTENDS Integers, Sequences, FiniteSets, TLC

VARIABLES
    parseIn,      \* the raw provider text last handed to parseResponse
    parseOut,     \* what parseResponse did with it
    parsePc,      \* "ready" before the first call, "done" after a call
    config,       \* LLMService.config: provider and whether an API key is set
    lastGw,       \* the last call of generateResponse: its input and outcome
    turns,        \* the executions of AIAgent.processPrompt, one per slot
    chatHistory,  \* AIAgent.chatHistory
    userAnswers,  \* AIAgent.userAnswers
    calls,        \* number of processPrompt / handleUserAnswer calls so far
    messages,     \* PromptHandler.messages
    hostQueue,    \* sendMessage posts of the chat view not yet handled
    viewQueue,    \* updateChat posts of the extension not yet handled
    isProcessing, \* the chat view's isProcessing flag
    sends,        \* number of messages the chat view has posted
    toolCall,     \* the last call of ToolManager.executeAction and what it came to
    store,        \* a LocalVectorDB
    probe,        \* another LocalVectorDB, which only loads
    disk,         \* the content of the snapshot file
    dbLast,       \* the last LocalVectorDB call and what it came to
    workspace,    \* the workspace folder ContextManager indexes
    vectorDB,     \* ContextManager.vectorDB
    isInitializing, \* ContextManager.isInitializing
    pass,         \* the indexing pass in progress, or the last one
    chunkIn,      \* the lines and budget chunkDocument is called with
    chunkOut,     \* the chunks it returned
    chunkPc,      \* whether it has been called
    codebaseContext, \* the project summary the ContextManager holds
    contextFile,  \* .toshimo/toshimo.context
    vectorDBFile, \* .toshimo/toshimo.vector.db
    context,      \* what the last getRelevantContext of the session returned
    terminalManager, \* a TerminalCommandManager: its terminal and isExecuting
    termCall      \* the executeCommand calls made and what the last came to

parseVars == <<parseIn, parseOut, parsePc>>

gwVars == <<config, lastGw>>

agentVars == <<turns, chatHistory, userAnswers, calls>>

chatVars == <<messages, hostQueue, viewQueue, isProcessing, sends>>

toolVars == <<toolCall>>

storeVars == <<store, probe, disk, dbLast>>

\* the components that take no part in an agent turn's steps
indexVars == <<workspace, vectorDB, isInitializing, pass>>

chunkVars == <<chunkIn, chunkOut, chunkPc>>

sessionVars == <<codebaseContext, contextFile, vectorDBFile, context>>

termVars == <<terminalManager, termCall>>

libVars == <<toolVars, storeVars, indexVars, chunkVars, sessionVars, termVars>>

vars == <<parseIn, parseOut, parsePc, config, lastGw,
          turns, chatHistory, userAnswers, calls,
          messages, hostQueue, viewQueue, isProcessing, sends,
          toolCall, store, probe, disk, dbLast,
          workspace, vectorDB, isInitializing, pass,
          chunkIn, chunkOut, chunkPc,
          codebaseContext, contextFile, vectorDBFile, context,
          terminalManager, termCall>>

----------------------------------------------------------------------------
(* Bounds *)

MaxLen == 5          \* longest free-form raw text, in tokens
MaxQuestions == 2    \* longest questions array in a payload
MaxActions == 2      \* longest actions array in a payload
MaxCalls == 1        \* calls of the agent in a run that follows turns step by step
MaxHistoryCalls == 6 \* calls of the agent in a run that follows the history
MaxSends == 2        \* messages the chat view sends; one execution slot each
MaxStore == 2        \* records a LocalVectorDB holds
MaxK == 3            \* largest k a search asks for
MaxFiles == 2        \* files in the workspace
MaxPasses == 2       \* invocations of indexing in a run
MaxLines == 3        \* lines of a document that is chunked
MaxLine == 3         \* longest line of such a document
MaxBudget == 4       \* largest maxChunkSize
MaxCommand == 2      \* longest command handed to executeCommand, in characters
MaxExecutions == 5   \* calls of executeCommand in a run

----------------------------------------------------------------------------
(* Tokens and texts *)

Tok(kind) == [k |-> kind, c |-> "", a |-> <<>>, q |-> <<>>]

ChatTok(text) == [k |-> "CHAT", c |-> text, a |-> <<>>, q |-> <<>>]

ActionsTok(acts) == [k |-> "ACTIONS", c |-> "", a |-> acts, q |-> <<>>]

QuestionsTok(qs) == [k |-> "QUESTIONS", c |-> "", a |-> <<>>, q |-> qs]

SeqsUpTo(S, n) == UNION {[1..m -> S] : m \in 0..n}

\* A question as the model emits it: each of id, text, type may be empty,
\* and type may be the sentinel "none".
Questions == [id : {"", "q1"}, text : {"", "t"}, type : {"", "none", "yes_no"}]

WellFormedQ == [id |-> "q1", text |-> "t", type |-> "yes_no"]

EmptyTextQ == [id |-> "q1", text |-> "", type |-> "yes_no"]

\* A tool action as the model emits it.
Actions ==
    { [tool |-> "FileManager", command |-> "readFile"],
      [tool |-> "FileManager", command |-> "createFile"],
      [tool |-> "FileEditor", command |-> "editFile"],
      [tool |-> "FileManager", command |-> "nope"],
      [tool |-> "Nope", command |-> "readFile"] }

PlainKinds == {"S", "E", "LB", "RB", "WS", "NL", "TXT"}

FreeTokens == {Tok(kd) : kd \in PlainKinds}
                  \cup {ChatTok("hi"), QuestionsTok(<<WellFormedQ>>)}

WellFormed(c, a, q) ==
    <<Tok("S"), Tok("LB"), ChatTok(c), ActionsTok(a), QuestionsTok(q),
      Tok("RB"), Tok("E")>>

\* The raw texts parseResponse is exercised on: every token sequence of up
\* to MaxLen tokens, and every well-formed reply over the bounded payloads.
RawTexts ==
    SeqsUpTo(FreeTokens, MaxLen)
      \cup {WellFormed(c, <<>>, q) : c \in {"", "hi"}, q \in SeqsUpTo(Questions, MaxQuestions)}
      \cup {WellFormed(c, a, <<>>) : c \in {"", "hi"}, a \in SeqsUpTo(Actions, MaxActions)}

----------------------------------------------------------------------------
(* LLMService.parseResponse *)

RECURSIVE RemoveKind(_, _)
RemoveKind(s, kind) ==
    IF s = <<>> THEN <<>>
    ELSE IF Head(s).k = kind THEN RemoveKind(Tail(s), kind)
    ELSE <<Head(s)>> \o RemoveKind(Tail(s), kind)

\* .replace(/\s+/g, ' '): every run of blanks becomes one blank
RECURSIVE CollapseWs(_)
CollapseWs(s) ==
    IF Len(s) < 2 THEN s
    ELSE IF Head(s).k = "WS" /\ s[2].k = "WS" THEN CollapseWs(Tail(s))
    ELSE <<Head(s)>> \o CollapseWs(Tail(s))

RECURSIVE TrimLeft(_)
TrimLeft(s) ==
    IF s # <<>> /\ Head(s).k \in {"WS", "NL"} THEN TrimLeft(Tail(s)) ELSE s

RECURSIVE TrimRight(_)
TrimRight(s) ==
    IF s # <<>> /\ s[Len(s)].k \in {"WS", "NL"}
    THEN TrimRight(SubSeq(s, 1, Len(s) - 1)) ELSE s

Trim(s) == TrimRight(TrimLeft(s))

\* lines 424-428
Normalize(raw) == Trim(CollapseWs(RemoveKind(raw, "NL")))

\* String.indexOf / lastIndexOf on a marker; 0 stands for JavaScript's -1
IndexOf(s, kind) ==
    IF \E i \in 1..Len(s) : s[i].k = kind
    THEN CHOOSE i \in 1..Len(s) :
             s[i].k = kind /\ \A j \in 1..(i - 1) : s[j].k # kind
    ELSE 0

LastIndexOf(s, kind) ==
    IF \E i \in 1..Len(s) : s[i].k = kind
    THEN CHOOSE i \in 1..Len(s) :
             s[i].k = kind /\ \A j \in (i + 1)..Len(s) : s[j].k # kind
    ELSE 0

\* line 436
StartIndex(norm) == IndexOf(norm, "S")

EndIndex_Earliest(norm) == IndexOf(norm, "E")

\* line 437
EndIndex(norm) == LastIndexOf(norm, "E")

\* line 441
MarkersFound(startIndex, endIndex) ==
    startIndex # 0 /\ endIndex # 0 /\ startIndex < endIndex

\* lines 444-446
JsonStr(norm, startIndex, endIndex) ==
    Trim(SubSeq(norm, startIndex + 1, endIndex - 1))

\* line 451
BraceWrapped(js) == js # <<>> /\ js[1].k = "LB" /\ js[Len(js)].k = "RB"

\* JSON.parse accepts the brace-wrapped text when what is between the outer
\* braces is a list of members (blanks between them are insignificant)
JsonParses(js) ==
    /\ Len(js) >= 2
    /\ js[1].k = "LB"
    /\ js[Len(js)].k = "RB"
    /\ \A i \in 2..(Len(js) - 1) : js[i].k \in {"WS", "CHAT", "ACTIONS", "QUESTIONS"}

MemberAt(js, kind, at) == IF at = 0 THEN Tok(kind) ELSE js[at]

\* the value JSON.parse gives a member: that of its last occurrence
Member(js, kind) == MemberAt(js, kind, LastIndexOf(js, kind))

\* The narrative of a response
Narrative(head, chat, msg, raw) ==
    [head |-> head, chat |-> chat, msg |-> msg, raw |-> raw, errs |-> <<>>]

\* stands for "no value" where a call ended in an exception
NoValue ==
    [ content |-> Narrative("none", "", "", <<>>),
      actions |-> <<>>, questions |-> <<>>, requiresUserInput |-> FALSE ]

ResultOf_ActionsDropped(chat, actions, questions, raw) ==
    [ content |-> IF chat.c # ""
                  THEN Narrative("chat", chat.c, "", <<>>)
                  ELSE Narrative("raw", "", "", raw),
      actions |-> <<>>,
      questions |-> questions.q,
      requiresUserInput |-> Len(questions.q) > 0 ]

\* lines 458-463, from the members of the parsed object
ResultOf(chat, actions, questions, raw) ==
    [ content |-> IF chat.c # ""
                  THEN Narrative("chat", chat.c, "", <<>>)
                  ELSE Narrative("raw", "", "", raw),
      actions |-> actions.a,
      questions |-> questions.q,
      requiresUserInput |-> Len(questions.q) > 0 ]

ParsedResult_InputFlagDropped(js, raw) ==
    [ ResultOf(Member(js, "CHAT"), Member(js, "ACTIONS"),
               Member(js, "QUESTIONS"), raw)
        EXCEPT !.requiresUserInput = FALSE ]

\* lines 455-463
ParsedResult(js, raw) ==
    ResultOf(Member(js, "CHAT"), Member(js, "ACTIONS"),
             Member(js, "QUESTIONS"), raw)

\* lines 491-496
UnstructuredResult(raw) ==
    [ content |-> Narrative("raw", "", "", raw),
      actions |-> <<>>, questions |-> <<>>, requiresUserInput |-> FALSE ]

\* lines 464-476: the inner catch logs and rethrows; the log statement reads
\* jsonStr, which is scoped to the try block, so building the log entry
\* raises a ReferenceError that replaces the error being handled.
InnerCatch(jsonError) == "jsonStr is not defined"

MarkerBranch_SwallowsError(js, raw) ==
    IF BraceWrapped(js) /\ JsonParses(js)
    THEN [threw |-> FALSE, msg |-> "", value |-> ParsedResult(js, raw)]
    ELSE [threw |-> FALSE, msg |-> "", value |-> UnstructuredResult(raw)]

\* lines 442-476: the marker branch on the extracted jsonStr, which either
\* returns or throws
MarkerBranch(js, raw) ==
    IF ~BraceWrapped(js)
    THEN [threw |-> TRUE, msg |-> InnerCatch("Invalid JSON structure"),
          value |-> NoValue]
    ELSE IF ~JsonParses(js)
    THEN [threw |-> TRUE, msg |-> InnerCatch("Unexpected token"),
          value |-> NoValue]
    ELSE [threw |-> FALSE, msg |-> "", value |-> ParsedResult(js, raw)]

OuterCatch_Rethrows(msg, raw) ==
    [ threw |-> TRUE,
      value |-> [ content |-> Narrative("parseError", "", msg, raw),
                  actions |-> <<>>, questions |-> <<>>,
                  requiresUserInput |-> FALSE ] ]

\* lines 497-505
OuterCatch(msg, raw) ==
    [ threw |-> FALSE,
      value |-> [ content |-> Narrative("parseError", "", msg, raw),
                  actions |-> <<>>, questions |-> <<>>,
                  requiresUserInput |-> FALSE ] ]

\* lines 420 and 497: what the outer try makes of the marker branch
OuterTry(branch, raw) ==
    IF branch.threw THEN OuterCatch(branch.msg, raw)
    ELSE [threw |-> FALSE, value |-> branch.value]

\* lines 441-496, given the two marker positions
ParseBetween(norm, raw, startIndex, endIndex) ==
    IF MarkersFound(startIndex, endIndex)
    THEN OuterTry(MarkerBranch(JsonStr(norm, startIndex, endIndex), raw), raw)
    ELSE [threw |-> FALSE, value |-> UnstructuredResult(raw)]

\* lines 432-496, given the normalized text
ParseNormalized(norm, raw) ==
    ParseBetween(norm, raw, StartIndex(norm), EndIndex(norm))

\* lines 419-506.  threw says whether the call ended in an exception; value
\* is what it returned otherwise.
parseResponse(raw) == ParseNormalized(Normalize(raw), raw)

----------------------------------------------------------------------------
(* ErrorHandler.withErrorHandling and LLMService.generateResponse *)

NoError == [type |-> "none", msg |-> ""]

\* what a provider request can come to: a reply text, or a failure of the
\* HTTP client (connection refused, status 401, any other HTTP failure), or
\* a reply whose body lacks the expected fields
ProviderOutcomes(Raws) ==
    {[kind |-> "ok", raw |-> r] : r \in Raws}
      \cup {[kind |-> kd, raw |-> <<>>] :
                kd \in {"refused", "unauthorized", "http", "malformed"}}

Returned(v) == [threw |-> FALSE, err |-> NoError, value |-> v]

Thrown(type, msg) ==
    [threw |-> TRUE, err |-> [type |-> type, msg |-> msg], value |-> NoValue]

\* lines 81-121: the try body of a call path, the request and then
\* parseResponse on the reply; parsed is what parseResponse makes of it
CallBody(outcome, parsed) ==
    IF outcome.kind = "ok" /\ ~parsed.threw
    THEN Returned(parsed.value)
    ELSE Thrown("pending", outcome.kind)

\* body is what the try block came to
callOllama(outcome, body) ==
    IF ~body.threw THEN body
    ELSE IF outcome.kind = "refused"
    THEN Thrown("API", "Could not connect to Ollama")
    ELSE IF outcome.kind \in {"unauthorized", "http"}
    THEN Thrown("API", "Ollama API error")
    ELSE Thrown("Unknown", "Unexpected error while calling Ollama API")

callOpenAI(outcome, body) ==
    IF ~body.threw THEN body
    ELSE IF outcome.kind = "unauthorized"
    THEN Thrown("API", "Invalid OpenAI API key")
    ELSE IF outcome.kind \in {"refused", "http"}
    THEN Thrown("API", "OpenAI API error")
    ELSE Thrown("Unknown", "Unexpected error while calling OpenAI API")

callClaude(outcome, body) ==
    IF ~body.threw THEN body
    ELSE IF outcome.kind = "unauthorized"
    THEN Thrown("API", "Invalid Claude API key")
    ELSE IF outcome.kind \in {"refused", "http"}
    THEN Thrown("API", "Claude API error")
    ELSE Thrown("Unknown", "Unexpected error while calling Claude API")

\* the fallback object of generateResponse
Fallback ==
    [ content |-> Narrative("fallback", "", "Failed to generate response", <<>>),
      actions |-> <<>>, questions |-> <<>>, requiresUserInput |-> FALSE ]

withErrorHandling_Rethrows(op, hasFallback, fallback) ==
    [ threw |-> op.threw,
      value |-> op.value,
      reported |-> op.err.type ]

\* ErrorHandler.withErrorHandling: run the operation; on an exception
\* report it, then return the fallback if one was given, else rethrow
withErrorHandling(op, hasFallback, fallback) ==
    IF ~op.threw
    THEN [threw |-> FALSE, value |-> op.value, reported |-> "none"]
    ELSE IF hasFallback
    THEN [threw |-> FALSE, value |-> fallback, reported |-> op.err.type]
    ELSE [threw |-> TRUE, value |-> NoValue, reported |-> op.err.type]

KeyMissing_NeverChecked(cfg) == FALSE

\* line 48
KeyMissing(cfg) == cfg.provider # "ollama" /\ ~cfg.apiKey

\* lines 57-68: the call path the switch selects
Route(provider) ==
    IF provider \in {"claude", "openai", "ollama"} THEN provider ELSE "ollama"

\* lines 46-69: the operation handed to withErrorHandling; body is what
\* the try block of the selected call path comes to
GenerateBody(cfg, outcome, body) ==
    IF KeyMissing(cfg) THEN Thrown("Configuration", "API key is required")
    ELSE IF Route(cfg.provider) = "claude" THEN callClaude(outcome, body)
    ELSE IF Route(cfg.provider) = "openai" THEN callOpenAI(outcome, body)
    ELSE callOllama(outcome, body)

\* what a call of generateResponse amounts to.  issued names the provider a
\* request went to ("none" when no request was made); provider is
\* config.provider after the call.
CallRecord(cfg, outcome, r) ==
    [ cfg |-> cfg,
      outcome |-> outcome.kind,
      threw |-> r.threw,
      value |-> r.value,
      reported |-> r.reported,
      issued |-> IF KeyMissing(cfg) THEN "none" ELSE Route(cfg.provider),
      provider |-> IF KeyMissing(cfg) THEN cfg.provider ELSE Route(cfg.provider) ]

\* lines 35-78
generateResponse(cfg, outcome) ==
    CallRecord(cfg, outcome,
        withErrorHandling(
            GenerateBody(cfg, outcome,
                         CallBody(outcome, parseResponse(outcome.raw))),
            TRUE, Fallback))

Providers == {"ollama", "openai", "claude", "other"}

\* the configuration the service is constructed with
Configs == [provider : Providers, apiKey : BOOLEAN]

\* before any call of generateResponse
NoCall ==
    [ cfg |-> [provider |-> "ollama", apiKey |-> FALSE],
      outcome |-> "none", threw |-> FALSE, value |-> NoValue,
      reported |-> "none", issued |-> "none", provider |-> "ollama" ]

----------------------------------------------------------------------------
(* ToolManager.executeAction *)

\* lines 8-13: the registry and the operations each tool exposes
Tools ==
    [ FileManager |-> {"createFile", "readFile", "fileExists"},
      FileEditor |-> {"editFile", "showDiff"},
      TerminalClient |-> {"executeCommand", "formatCommand", "getPlatformInfo"},
      WebScraper |-> {"scrape"} ]

\* names every JavaScript object answers to besides its own properties: the
\* registry (an object literal), each tool and each function inherit them
\* from Object.prototype
Inherited == {"toString"}

\* own properties of a tool that hold a truthy value which is not a function
\* (FileManager.js line 7, TerminalClient.js line 7)
Fields ==
    [ FileManager |-> {"workspaceRoot"},
      FileEditor |-> {},
      TerminalClient |-> {"platform"},
      WebScraper |-> {} ]

\* line 20: what this.tools[tool] evaluates to
ToolLookup(tool) ==
    IF tool \in DOMAIN Tools THEN "tool"
    ELSE IF tool \in Inherited THEN "inherited"
    ELSE "undefined"

\* line 24: what this.tools[tool][command] evaluates to
CommandLookup(tool, command) ==
    IF tool \in DOMAIN Tools /\ command \in Tools[tool] THEN "operation"
    ELSE IF tool \in DOMAIN Tools /\ command \in Fields[tool] THEN "value"
    ELSE IF command \in Inherited THEN "inherited"
    ELSE "undefined"

\* what executeAction comes to.  invoked counts the calls it makes; target
\* is what it called; type is the ToshimoError type of the exception ("none"
\* for an exception that is not a ToshimoError); namesTool, namesCommand and
\* listsTools say what the exception's message mentions.
ToolResult(threw, invoked, target, msg, namesTool, namesCommand, listsTools) ==
    [ threw |-> threw, invoked |-> invoked, target |-> target, msg |-> msg,
      type |-> "none", namesTool |-> namesTool,
      namesCommand |-> namesCommand, listsTools |-> listsTools ]

\* lines 16-36.  out is what the invoked function comes to, "ok" or "fail"
executeAction(action, out) ==
    IF ToolLookup(action.tool) = "undefined"
    THEN ToolResult(TRUE, 0, "none", "Tool not found", TRUE, FALSE, TRUE)
    ELSE IF CommandLookup(action.tool, action.command) = "undefined"
    THEN ToolResult(TRUE, 0, "none", "Command not found", TRUE, TRUE, FALSE)
    ELSE IF CommandLookup(action.tool, action.command) = "value"
    THEN ToolResult(TRUE, 0, "none", "is not a function", FALSE, FALSE, FALSE)
    ELSE IF CommandLookup(action.tool, action.command) = "inherited"
    THEN ToolResult(FALSE, 1, "inherited", "", FALSE, FALSE, FALSE)
    ELSE IF out = "fail"
    THEN ToolResult(TRUE, 1, "operation", "operation failed", FALSE, FALSE, FALSE)
    ELSE ToolResult(FALSE, 1, "operation", "", FALSE, FALSE, FALSE)

ToolOutcomes == {"ok", "fail"}

----------------------------------------------------------------------------
(* ErrorHandler.ErrorType and LocalVectorDB *)

\* part_006 lines 3-11: the declared error types
ErrorTypes ==
    {"Configuration", "API", "FileSystem", "Terminal", "VectorDB",
     "Embedding", "Unknown"}

\* the value of the expression ErrorType.<name>
ErrorType(name) == IF name \in ErrorTypes THEN name ELSE "undefined"

\* lines 211-215
EmptyStore == [vectors |-> <<>>, documents |-> <<>>, isDirty |-> FALSE]

\* lines 217-221
add(s, document, vector) ==
    [ vectors |-> Append(s.vectors, vector),
      documents |-> Append(s.documents, document),
      isDirty |-> TRUE ]

\* contents of the snapshot file: no file, text that JSON.parse rejects, or
\* a JSON object that may lack vectors or documents
NoFile ==
    [ kind |-> "missing", hasVectors |-> FALSE, hasDocuments |-> FALSE,
      vectors |-> <<>>, documents |-> <<>> ]

Garbage ==
    [ kind |-> "garbage", hasVectors |-> FALSE, hasDocuments |-> FALSE,
      vectors |-> <<>>, documents |-> <<>> ]

Snapshot(hasVectors, vectors, hasDocuments, documents) ==
    [ kind |-> "json", hasVectors |-> hasVectors, hasDocuments |-> hasDocuments,
      vectors |-> vectors, documents |-> documents ]

\* lines 230-236: the text written, as JSON.parse reads it back.  The
\* vectors are arrays of numbers and the documents are chunks whose members
\* are all strings (part_002 lines 360-366), which JSON represents as they
\* are; the version member is not read back.
Stringify(s) == Snapshot(TRUE, s.vectors, TRUE, s.documents)

\* lines 223-246.  written is what fs.writeFile comes to: "ok", "failed"
\* (file untouched) or "partial" (file left truncated)
save(s, file, written) ==
    IF ~s.isDirty
    THEN [store |-> s, disk |-> file, threw |-> FALSE, type |-> "none"]
    ELSE IF written = "ok"
    THEN [store |-> [s EXCEPT !.isDirty = FALSE], disk |-> Stringify(s),
          threw |-> FALSE, type |-> "none"]
    ELSE [store |-> s, disk |-> IF written = "partial" THEN Garbage ELSE file,
          threw |-> TRUE, type |-> ErrorType("Storage")]

Reinitialized_KeepsClean == [vectors |-> <<>>, documents |-> <<>>, isDirty |-> FALSE]

\* lines 254-257 and 268-271
Reinitialized == [vectors |-> <<>>, documents |-> <<>>, isDirty |-> TRUE]

Corrupted_LengthsUnchecked(file) == ~file.hasVectors \/ ~file.hasDocuments

\* line 253
Corrupted(file) ==
    \/ ~file.hasVectors
    \/ ~file.hasDocuments
    \/ Len(file.vectors) # Len(file.documents)

\* lines 248-274
load(s, file) ==
    IF file.kind # "json" \/ Corrupted(file)
    THEN [store |-> Reinitialized, ret |-> FALSE, threw |-> FALSE]
    ELSE [store |-> [vectors |-> file.vectors, documents |-> file.documents,
                     isDirty |-> FALSE],
          ret |-> TRUE, threw |-> FALSE]

\* lines 276-278
isEmpty(s) == Len(s.vectors) = 0

SliceTo_Whole(seq, k) == seq

\* Array.prototype.slice(0, k) for k >= 0
SliceTo(seq, k) == SubSeq(seq, 1, IF k < Len(seq) THEN k ELSE Len(seq))

\* lines 280-295
search(s, k) ==
    IF isEmpty(s) THEN <<>>
    ELSE [i \in 1..Len(SliceTo(s.documents, k)) |-> SliceTo(s.documents, k)[i].content]

----------------------------------------------------------------------------
(* EmbeddingProvider.getEmbedding and ContextManager indexing (part_002) *)

\* lines 18-58: the vector for a text.  requestOk says whether the request
\* to the embedding endpoint gave an embedding; otherwise, and on any
\* exception, generateSimpleHash(text) is returned.  Never throws.
getEmbedding(requestOk) == IF requestOk THEN "remote" ELSE "hash"

\* What the environment does with a file of the workspace, in every pass:
\* "binary" has an extension outside the allow-list, "unreadable" makes
\* fs.readFile reject, "nostat" makes fs.stat reject, "unembeddable" makes
\* the embedding request fail, "small" fits one chunk, "large" needs two.
FileKinds == {"binary", "unreadable", "nostat", "unembeddable", "small", "large"}

\* lines 392-402
isTextFile(file) == file # "binary"

\* Where a file of the workspace lies: "plain" is anywhere else than the
\* others; ".git", "node_modules" and ".toshimo" are under a directory of
\* that name; "dist" is under a build-output directory of the standard
\* ignore set (line 154); "gitignored" matches a pattern of .gitignore;
\* "deep" is more than ten directories below the root.
Places == {"plain", ".git", "node_modules", ".toshimo", "dist", "gitignored", "deep"}

\* lines 534-551: whether getFileStructure, called with its default
\* ignoreDirs, reaches a file lying there
getFileStructure(place) == place \notin {".git", "node_modules", ".toshimo"}

RECURSIVE flattenFileStructure(_, _)
\* lines 306-307 and 439-448: the positions, in the workspace, of the files
\* the pass goes through, from position i on
flattenFileStructure(ws, i) ==
    IF i > Len(ws.files) THEN <<>>
    ELSE (IF getFileStructure(ws.places[i]) THEN <<i>> ELSE <<>>)
            \o flattenFileStructure(ws, i + 1)

Chunk(i, part) == [content |-> <<i, part>>, path |-> i]

RECURSIVE ChunkLoop(_, _, _, _, _, _)
\* lines 369-387: the loop from line n on and the push that follows it.  A
\* line is its length; chunks are the chunks pushed so far, current the
\* lines of currentChunk and size the value of currentSize.
ChunkLoop(lines, n, budget, chunks, current, size) ==
    IF n > Len(lines)
    THEN IF current # <<>> THEN Append(chunks, current) ELSE chunks
    ELSE IF size + lines[n] > budget
    THEN ChunkLoop(lines, n + 1, budget, Append(chunks, current),
                   <<lines[n]>>, lines[n] + 1)
    ELSE ChunkLoop(lines, n + 1, budget, chunks,
                   Append(current, lines[n]), size + lines[n] + 1)

\* lines 357-390 on the lines of a document: the lines of each chunk
ChunkLines(lines, budget) == ChunkLoop(lines, 1, budget, <<>>, <<>>, 0)

\* the lines of a file of the workspace, and the budget its pass chunks
\* them with: the two lines of a large file do not fit one chunk
FileLines(file) == IF file = "large" THEN <<2, 2>> ELSE <<1>>

FileBudget == 3

\* lines 357-390, for the file at position i
chunkDocument(i, file) ==
    [part \in 1..Len(ChunkLines(FileLines(file), FileBudget)) |-> Chunk(i, part)]

RECURSIVE AddChunks(_, _, _)
\* lines 336-342: each chunk is embedded and added
AddChunks(db, chunks, requestOk) ==
    IF chunks = <<>> THEN db
    ELSE AddChunks(add(db, Head(chunks), getEmbedding(requestOk)),
                   Tail(chunks), requestOk)

IndexedFile_Rethrows(db, i, file) ==
    IF ~isTextFile(file) THEN [db |-> db, threw |-> FALSE, counted |-> 0]
    ELSE IF file \in {"unreadable", "nostat"}
    THEN [db |-> db, threw |-> TRUE, counted |-> 0]
    ELSE [db |-> AddChunks(db, chunkDocument(i, file), file # "unembeddable"),
          threw |-> FALSE, counted |-> Len(chunkDocument(i, file))]

\* lines 313-347: one iteration of the loop, on the file at position i.
\* threw says whether an exception leaves the iteration; counted is how
\* often line 341 incremented indexedCount.
IndexedFile(db, i, file) ==
    IF ~isTextFile(file) THEN [db |-> db, threw |-> FALSE, counted |-> 0]
    ELSE IF file \in {"unreadable", "nostat"}
    THEN [db |-> db, threw |-> FALSE, counted |-> 0]
    ELSE [db |-> AddChunks(db, chunkDocument(i, file), file # "unembeddable"),
          threw |-> FALSE, counted |-> Len(chunkDocument(i, file))]

\* The project summary.  made tells summaries apart: it is the number of
\* the initialization whose analysis produced it, 0 for one that was on
\* disk before the first session.
NoSummary == [kind |-> "null", made |-> 0, directoryStructure |-> FALSE]

NoContextFile == [kind |-> "missing", made |-> 0]

GarbageContextFile == [kind |-> "garbage", made |-> 0]

SummaryFile(made) == [kind |-> "json", made |-> made]

\* lines 248-249: JSON.parse of the text of the context file
ParsedSummary(file) ==
    [kind |-> "object", made |-> file.made, directoryStructure |-> FALSE]

\* lines 243-253: the summary held after the context file was looked for
LoadedSummary(held, file) ==
    IF file.kind = "json" THEN ParsedSummary(file) ELSE held

\* lines 244-253
needsContextAnalysis(file) == file.kind # "json"

\* line 556: search called with its default k
DefaultK == 5

\* no getRelevantContext call made yet in the session.  block is where the
\* summary block at the head of the list came from ("none" when the list
\* has none), made the summary it shows, hits what follows it; loaded says
\* whether a call of the session has read the summary from disk, earlier
\* whether one had before the last call.
NoContextCall ==
    [ returned |-> FALSE, block |-> "none", made |-> 0, hits |-> <<>>,
      loaded |-> FALSE, earlier |-> FALSE ]

\* lines 553-616
RelevantContext(db, open, file, held, last) ==
    LET hits == search(db, DefaultK)
    IN IF ~open
       THEN [ returned |-> TRUE, block |-> "none", made |-> 0, hits |-> hits,
              loaded |-> last.loaded, earlier |-> last.loaded ]
       ELSE IF file.kind = "json"
       THEN [ returned |-> TRUE, block |-> "file", made |-> file.made,
              hits |-> hits, loaded |-> TRUE, earlier |-> last.loaded ]
       ELSE IF held.kind # "null"
       THEN [ returned |-> TRUE, block |-> "memory", made |-> held.made,
              hits |-> hits, loaded |-> last.loaded, earlier |-> last.loaded ]
       ELSE [ returned |-> TRUE, block |-> "none", made |-> 0, hits |-> hits,
              loaded |-> last.loaded, earlier |-> last.loaded ]

FreshIndex_KeepsStore(db) == db

\* line 241: initializeCodebase replaces the store
FreshIndex(db) == EmptyStore

\* no pass made yet.  handled counts the calls of ErrorHandler.handle made
\* since the last pass began; notice says whether the message
\* 'Codebase initialization complete!' was shown since then.
NoPass ==
    [ pc |-> "Idle", by |-> "none", i |-> 0, made |-> 0, ended |-> "none",
      aborted |-> FALSE, needsContextAnalysis |-> FALSE, indexedCount |-> 0,
      handled |-> 0, notice |-> FALSE ]

\* lines 212-219 and 239-257: initializeCodebase up to its indexWorkspace call
initializeCodebase ==
    /\ pass.pc = "Idle"
    /\ ~isInitializing
    /\ pass.made < MaxPasses
    /\ isInitializing' = TRUE
    /\ IF workspace.open
       THEN /\ vectorDB' = FreshIndex(vectorDB)
            /\ codebaseContext' = LoadedSummary(codebaseContext, contextFile)
            /\ pass' = [pass EXCEPT !.pc = "Listing", !.by = "initializeCodebase",
                                    !.i = 0, !.ended = "none",
                                    !.aborted = FALSE,
                                    !.handled = 0, !.notice = FALSE,
                                    !.needsContextAnalysis =
                                        needsContextAnalysis(contextFile)]
       ELSE /\ vectorDB' = vectorDB
            /\ codebaseContext' = codebaseContext
            /\ pass' = [pass EXCEPT !.pc = "Failing", !.by = "initializeCodebase",
                                    !.i = 0, !.ended = "none",
                                    !.aborted = FALSE,
                                    !.handled = 0, !.notice = FALSE]
    /\ UNCHANGED <<workspace, contextFile, vectorDBFile, context>>

\* lines 214-217: a call made while an initialization is in progress
\* returns at once, and the command that made it goes on to show its
\* message (part_005 lines 83-84).  No command runs between a throw and the
\* catch and finally blocks it leads to, which hold no wait.
initializeCodebaseSkipped ==
    /\ isInitializing
    /\ pass.pc # "Failing"
    /\ pass.ended # "skipped"
    /\ pass' = [pass EXCEPT !.ended = "skipped", !.notice = TRUE]
    /\ UNCHANGED <<workspace, vectorDB, isInitializing, sessionVars>>

initializeCodebaseFailed_KeepsFlag ==
    /\ pass.pc = "Failing"
    /\ isInitializing' = isInitializing
    /\ pass' = [pass EXCEPT !.pc = "Idle", !.made = @ + 1, !.ended = "threw",
                            !.handled = @ + 1]
    /\ UNCHANGED <<workspace, vectorDB, sessionVars>>

\* lines 296-301: the catch and finally blocks of initializeCodebase
initializeCodebaseFailed ==
    /\ pass.pc = "Failing"
    /\ isInitializing' = FALSE
    /\ pass' = [pass EXCEPT !.pc = "Idle", !.made = @ + 1, !.ended = "threw",
                            !.handled = @ + 1]
    /\ UNCHANGED <<workspace, vectorDB, sessionVars>>

\* line 304: indexWorkspace called on its own
indexWorkspace ==
    /\ pass.pc = "Idle"
    /\ pass.made < MaxPasses
    /\ pass' = [pass EXCEPT !.pc = "Listing", !.by = "indexWorkspace",
                            !.i = 0, !.ended = "none", !.aborted = FALSE,
                            !.handled = 0, !.notice = FALSE]
    /\ UNCHANGED <<workspace, vectorDB, isInitializing, sessionVars>>

\* what follows the loop: indexWorkspace returns; initializeCodebase goes on
\* to save the store (lines 260-262) unless it is empty
AfterLoop(p, db) ==
    IF p.by = "indexWorkspace"
    THEN [p EXCEPT !.pc = "Idle", !.made = @ + 1, !.ended = "returned"]
    ELSE IF isEmpty(db) THEN [p EXCEPT !.pc = "Finishing"]
    ELSE [p EXCEPT !.pc = "Saving"]

\* lines 306-310 and 351-354: getFileStructure settles; when it throws,
\* the catch of indexWorkspace reports the error (line 352) and rethrows
FilesListed(ok) ==
    /\ pass.pc = "Listing"
    /\ pass' = IF ~ok
               THEN IF pass.by = "indexWorkspace"
                    THEN [pass EXCEPT !.pc = "Idle", !.made = @ + 1,
                                      !.ended = "threw", !.handled = @ + 1]
                    ELSE [pass EXCEPT !.pc = "Failing", !.handled = @ + 1]
               ELSE IF flattenFileStructure(workspace, 1) = <<>>
               THEN AfterLoop([pass EXCEPT !.indexedCount = 0], vectorDB)
               ELSE [pass EXCEPT !.pc = "File", !.i = 1, !.indexedCount = 0]
    /\ UNCHANGED <<workspace, vectorDB, isInitializing, sessionVars>>

\* the loop goes on to the next file or ends
LoopOn(p, r) ==
    IF r.threw
    THEN IF p.by = "indexWorkspace"
         THEN [p EXCEPT !.pc = "Idle", !.made = @ + 1, !.ended = "threw",
                        !.aborted = TRUE, !.handled = @ + 1]
         ELSE [p EXCEPT !.pc = "Failing", !.aborted = TRUE, !.handled = @ + 1]
    ELSE IF p.i < Len(flattenFileStructure(workspace, 1)) THEN [p EXCEPT !.i = @ + 1]
    ELSE AfterLoop(p, r.db)

FileSettled(r) ==
    /\ vectorDB' = r.db
    /\ pass' = LoopOn([pass EXCEPT !.indexedCount = @ + r.counted], r)

\* lines 312-348: one iteration of the loop settles
FileIndexed ==
    /\ pass.pc = "File"
    /\ FileSettled(IndexedFile(vectorDB,
                               flattenFileStructure(workspace, 1)[pass.i],
                               workspace.files[flattenFileStructure(workspace, 1)[pass.i]]))
    /\ UNCHANGED <<workspace, isInitializing, sessionVars>>

\* lines 262-266: after the save, the analysis if it is needed
SaveSettled(r) ==
    /\ vectorDB' = r.store
    /\ vectorDBFile' = r.disk
    /\ pass' = [pass EXCEPT !.pc = IF r.threw THEN "Failing"
                                   ELSE IF pass.needsContextAnalysis
                                   THEN "Analyzing"
                                   ELSE "Finishing"]

\* line 262: the save of the new store settles
VectorDBSaved(written) ==
    /\ pass.pc = "Saving"
    /\ SaveSettled(save(vectorDB, vectorDBFile, written))
    /\ UNCHANGED <<workspace, isInitializing, codebaseContext, contextFile,
                   context>>

\* lines 267 and 450-532: analyzeCodebase settles.  Whatever the model
\* answers, a summary is written to the context file and returned; written
\* is what fs.writeFile comes to, and its failure leaves analyzeCodebase
\* and initializeCodebase as an exception.
analyzeCodebase(written) ==
    /\ pass.pc = "Analyzing"
    /\ IF written = "ok"
       THEN /\ contextFile' = SummaryFile(pass.made + 1)
            /\ codebaseContext' = ParsedSummary(SummaryFile(pass.made + 1))
            /\ pass' = [pass EXCEPT !.pc = "Finishing"]
       ELSE /\ contextFile' = IF written = "partial" THEN GarbageContextFile
                              ELSE contextFile
            /\ codebaseContext' = codebaseContext
            /\ pass' = [pass EXCEPT !.pc = "Failing"]
    /\ UNCHANGED <<workspace, vectorDB, isInitializing, vectorDBFile, context>>

\* lines 274-301: the rest of initializeCodebase (the directory tree)
\* settles; ok says whether it returned: then the command that called it
\* shows its message (part_005 lines 83-84), else the catch reports the
\* error (line 297) and rethrows
initializeCodebaseEnd(ok) ==
    /\ pass.pc = "Finishing"
    /\ isInitializing' = FALSE
    /\ pass' = [pass EXCEPT !.pc = "Idle", !.made = @ + 1,
                            !.ended = IF ok THEN "returned" ELSE "threw",
                            !.handled = IF ok THEN @ ELSE @ + 1,
                            !.notice = IF ok THEN TRUE ELSE @]
    /\ codebaseContext' =
           IF ok /\ codebaseContext.kind # "null"
           THEN [codebaseContext EXCEPT !.directoryStructure = TRUE]
           ELSE codebaseContext
    /\ UNCHANGED <<workspace, vectorDB, contextFile, vectorDBFile, context>>

\* lines 553-616: one call of getRelevantContext
getRelevantContext ==
    /\ context' = RelevantContext(vectorDB, workspace.open, contextFile,
                                  codebaseContext, context)
    /\ UNCHANGED <<indexVars, codebaseContext, contextFile, vectorDBFile>>

\* part_005 lines 8-16 and part_002 lines 141-148: the extension is
\* activated in a new session and constructs its ContextManager; what is
\* on disk stays
activate ==
    /\ pass.pc = "Idle"
    /\ vectorDB' = EmptyStore
    /\ codebaseContext' = NoSummary
    /\ isInitializing' = FALSE
    /\ pass' = [NoPass EXCEPT !.made = pass.made]
    /\ context' = NoContextCall
    /\ UNCHANGED <<workspace, contextFile, vectorDBFile>>

\* the context file is deleted or becomes unreadable
ContextFileLost ==
    /\ contextFile.kind # "missing"
    /\ contextFile' = NoContextFile
    /\ UNCHANGED <<indexVars, codebaseContext, vectorDBFile, context>>

\* between two passes the files of the workspace are deleted: the next pass
\* reads the directory again (line 306) and finds none
FilesRemoved ==
    /\ pass.pc = "Idle"
    /\ workspace.open
    /\ workspace.files # <<>>
    /\ workspace' = [workspace EXCEPT !.files = <<>>, !.places = <<>>]
    /\ UNCHANGED <<vectorDB, isInitializing, pass, sessionVars>>

----------------------------------------------------------------------------
(* TerminalCommandManager *)

\* part_001 lines 6-11.  terminal is "undefined", "open" or "exited" (a
\* terminal whose exitStatus is set)
NewTerminalManager == [terminal |-> "undefined", isExecuting |-> FALSE]

\* no executeCommand call made yet.  pc is "Waiting" while a call waits
\* for its timer (line 74); last and msg are how the last call that ended
\* did so, handled the calls of ErrorHandler.handle, sent those of sendText.
NoTermCall ==
    [ pc |-> "Idle", made |-> 0, last |-> "none", msg |-> "",
      handled |-> 0, sent |-> 0 ]

\* lines 13-31: getTerminal; created says whether createTerminal returns
getTerminal(t, created) ==
    IF t \in {"undefined", "exited"}
    THEN IF created THEN [terminal |-> "open", threw |-> FALSE]
         ELSE [terminal |-> t, threw |-> TRUE]
    ELSE [terminal |-> t, threw |-> FALSE]

\* part_006 lines 83-93, without a fallback: the error is reported and
\* thrown again
Rejected(c, msg) ==
    [c EXCEPT !.last = "threw", !.msg = msg, !.handled = @ + 1]

\* lines 47-74: executeCommand up to its wait.  sent says whether show and
\* sendText return.  A call made while another waits is rejected and
\* leaves the waiting one as it is.
Executing(m, c, command, created, sent) ==
    IF m.isExecuting
    THEN [m |-> m,
          c |-> Rejected(c, "A command is already being executed. Please wait.")]
    ELSE IF Trim(command) = <<>>
    THEN [m |-> m, c |-> Rejected(c, "Cannot execute empty command")]
    ELSE IF getTerminal(m.terminal, created).threw
    THEN [m |-> [m EXCEPT !.isExecuting = TRUE],
          c |-> Rejected(c, "Failed to create terminal")]
    ELSE IF ~sent
    THEN [m |-> [terminal |-> getTerminal(m.terminal, created).terminal,
                 isExecuting |-> FALSE],
          c |-> Rejected(c, "sendText")]
    ELSE [m |-> [terminal |-> getTerminal(m.terminal, created).terminal,
                 isExecuting |-> TRUE],
          c |-> [c EXCEPT !.pc = "Waiting", !.sent = @ + 1]]

ExecutionSettled(r) ==
    /\ terminalManager' = r.m
    /\ termCall' = [r.c EXCEPT !.made = @ + 1]

\* lines 47-82: one call of executeCommand
executeCommand(command, created, sent) ==
    /\ termCall.made < MaxExecutions
    /\ ExecutionSettled(Executing(terminalManager, termCall, command, created, sent))

\* lines 74-78: the timer of the waiting call fires and its finally block
\* runs
executeCommandEnd ==
    /\ termCall.pc = "Waiting"
    /\ terminalManager' = [terminalManager EXCEPT !.isExecuting = FALSE]
    /\ termCall' = [termCall EXCEPT !.pc = "Idle", !.last = "returned", !.msg = ""]

\* the terminal is closed by the user: its exitStatus is set (line 15)
TerminalExited ==
    /\ terminalManager.terminal = "open"
    /\ terminalManager' = [terminalManager EXCEPT !.terminal = "exited"]
    /\ UNCHANGED termCall

----------------------------------------------------------------------------
(* AIAgent *)

HistoryLimit == 10

Turns == 1..MaxSends

\* one execution of processPrompt: where it is suspended, its locals
\* (prompt, response, the loop positions i and j, followUpResponse), what it
\* returned, counts of what it did, and the history it was entered with
IdleTurn ==
    [ pc |-> "Idle", prompt |-> "", before |-> <<>>, response |-> NoValue, i |-> 0,
      fu |-> NoValue, j |-> 0, result |-> NoValue, ended |-> "none",
      gatewayCalls |-> 0, followUps |-> 0,
      failed |-> FALSE, toolFailed |-> FALSE ]

UserText(text) == Narrative("user", text, "", <<>>)

\* Array.slice(-n)
LastN(seq, n) ==
    IF Len(seq) <= n THEN seq ELSE SubSeq(seq, Len(seq) - n + 1, Len(seq))

\* lines 97-102
ErrorResponse(msg) ==
    [ content |-> Narrative("error", "", msg, <<>>),
      actions |-> <<>>, questions |-> <<>>, requiresUserInput |-> FALSE ]

\* lines 78-83
QuestionResponse(response) ==
    [ content |-> response.content, questions |-> response.questions,
      requiresUserInput |-> TRUE, actions |-> <<>> ]

\* line 71: response.content += "\nError executing action: " + message
WithError(r, msg) ==
    [r EXCEPT !.response.content.errs = Append(@, msg),
              !.failed = TRUE, !.toolFailed = TRUE]

IsReadFile_AnyAction(action) == TRUE

\* line 46
IsReadFile(action) ==
    action.tool = "FileManager" /\ action.command = "readFile"

Ends(r, res) == [r EXCEPT !.pc = "Done", !.result = res, !.ended = "returned"]

UpdateHistory_NoTruncation(hist, r) ==
    hist \o << [role |-> "user", content |-> UserText(r.prompt)],
               [role |-> "assistant", content |-> r.response.content] >>

\* lines 87-92
UpdateHistory(hist, r) ==
    LastN(hist \o << [role |-> "user", content |-> UserText(r.prompt)],
                     [role |-> "assistant", content |-> r.response.content] >>,
          HistoryLimit)

Finish_AlwaysRecords(r, hist) ==
    [turn |-> IF Len(r.response.questions) > 0
              THEN Ends(r, QuestionResponse(r.response))
              ELSE Ends(r, r.response),
     hist |-> UpdateHistory(hist, r)]

\* lines 76-94: after the actions, return the questions or record the turn
Finish(r, hist) ==
    IF Len(r.response.questions) > 0
    THEN [turn |-> Ends(r, QuestionResponse(r.response)), hist |-> hist]
    ELSE [turn |-> Ends(r, r.response), hist |-> UpdateHistory(hist, r)]

Advance_SkipsOne(r, hist) ==
    IF r.i + 1 < Len(r.response.actions)
    THEN [turn |-> [r EXCEPT !.i = r.i + 2, !.pc = "AwaitTool"], hist |-> hist]
    ELSE Finish(r, hist)

\* line 39: the next pass of the loop over response.actions, or the end of it
Advance(r, hist) ==
    IF r.i < Len(r.response.actions)
    THEN [turn |-> [r EXCEPT !.i = r.i + 1, !.pc = "AwaitTool"], hist |-> hist]
    ELSE Finish(r, hist)

Becomes(t, n) ==
    /\ turns' = [turns EXCEPT ![t] = n.turn]
    /\ chatHistory' = n.hist

\* lines 16-27: the call, up to the await of getRelevantContext
processPrompt(t, p) ==
    /\ turns[t].pc \in {"Idle", "Done"}
    /\ turns' = [turns EXCEPT ![t] =
                    [IdleTurn EXCEPT !.pc = "AwaitContext", !.prompt = p,
                                     !.before = chatHistory]]
    /\ calls' = calls + 1
    /\ UNCHANGED <<chatHistory, userAnswers, gwVars, parseVars, libVars>>

\* processPrompt called directly, not by the chat front end
CallProcessPrompt(t, p) == processPrompt(t, p) /\ UNCHANGED chatVars

\* lines 106-135
handleUserAnswer(t, answer, questionId) ==
    /\ turns[t].pc \in {"Idle", "Done"}
    /\ userAnswers' = [userAnswers EXCEPT ![questionId] = answer]
    /\ chatHistory' =
           Append(chatHistory, [role |-> "user", content |-> UserText(answer)])
    /\ LET firstUser ==
               CHOOSE k \in 1..Len(chatHistory') :
                   /\ chatHistory'[k].role = "user"
                   /\ \A m \in 1..(k - 1) : chatHistory'[m].role # "user"
           lastPrompt == chatHistory'[firstUser].content.chat
       IN turns' = [turns EXCEPT ![t] =
               IF lastPrompt = ""
               THEN [Ends(IdleTurn, ErrorResponse("No previous prompt found"))
                        EXCEPT !.failed = TRUE]
               ELSE [IdleTurn EXCEPT !.pc = "AwaitContext", !.prompt = lastPrompt,
                                     !.before = chatHistory']]
    /\ calls' = calls + 1
    /\ UNCHANGED <<gwVars, parseVars, libVars, chatVars>>

\* lines 25-32 and 95-103: getRelevantContext settles
ContextResolved(t, ok) ==
    /\ turns[t].pc = "AwaitContext"
    /\ turns' = [turns EXCEPT ![t] =
           IF ok THEN [@ EXCEPT !.pc = "AwaitModel"]
           ELSE [Ends(@, ErrorResponse("context failed")) EXCEPT !.failed = TRUE]]
    /\ UNCHANGED <<chatHistory, userAnswers, calls, gwVars, parseVars, libVars, chatVars>>

\* lines 32-42, given what generateResponse came to
ModelSettled(t, g) ==
    LET r == [turns[t] EXCEPT !.response = g.value,
                              !.gatewayCalls = @ + 1,
                              !.failed = @ \/ g.reported # "none"]
    IN /\ lastGw' = g
       /\ config' = [config EXCEPT !.provider = g.provider]
       /\ IF g.threw
          THEN Becomes(t, [turn |-> Ends(r, ErrorResponse("gateway failed")),
                           hist |-> chatHistory])
          ELSE IF Len(g.value.actions) > 0
          THEN Becomes(t, [turn |-> [r EXCEPT !.i = 1, !.pc = "AwaitTool"],
                           hist |-> chatHistory])
          ELSE Becomes(t, Finish(r, chatHistory))

\* lines 32-42: the first generateResponse settles
ModelResolved(t, outcome) ==
    /\ turns[t].pc = "AwaitModel"
    /\ ModelSettled(t, generateResponse(config, outcome))
    /\ UNCHANGED <<userAnswers, calls, parseVars, libVars, chatVars>>

\* lines 42-49 and 69-73: executeAction settles for response.actions[i]
ToolResolved(t, out) ==
    /\ turns[t].pc = "AwaitTool"
    /\ LET r == turns[t]
           action == r.response.actions[r.i]
           e == executeAction(action, out)
       IN IF e.threw THEN Becomes(t, Advance(WithError(r, e.msg), chatHistory))
          ELSE IF IsReadFile(action)
          THEN Becomes(t, [turn |-> [r EXCEPT !.pc = "AwaitFollowUp"],
                           hist |-> chatHistory])
          ELSE Becomes(t, Advance(r, chatHistory))
    /\ UNCHANGED <<userAnswers, calls, gwVars, parseVars, libVars, chatVars>>

\* lines 50-68, given what the follow-up generateResponse came to
FollowUpSettled(t, g) ==
    LET r == [turns[t] EXCEPT !.fu = g.value,
                              !.gatewayCalls = @ + 1,
                              !.followUps = @ + 1,
                              !.failed = @ \/ g.reported # "none"]
    IN /\ lastGw' = g
       /\ config' = [config EXCEPT !.provider = g.provider]
       /\ IF g.threw
          THEN Becomes(t, Advance(WithError(r, "gateway failed"), chatHistory))
          ELSE IF Len(g.value.actions) > 0
          THEN Becomes(t, [turn |-> [r EXCEPT !.j = 1, !.pc = "AwaitFollowTool"],
                           hist |-> chatHistory])
          ELSE Becomes(t, Advance([r EXCEPT !.response.content = g.value.content],
                                  chatHistory))

\* lines 50-68: the follow-up generateResponse settles
FollowUpResolved(t, outcome) ==
    /\ turns[t].pc = "AwaitFollowUp"
    /\ FollowUpSettled(t, generateResponse(config, outcome))
    /\ UNCHANGED <<userAnswers, calls, parseVars, libVars, chatVars>>

FollowToolResolved_CallsGateway(t, out) ==
    /\ turns[t].pc = "AwaitFollowTool"
    /\ LET r == [turns[t] EXCEPT !.gatewayCalls =
                     IF IsReadFile(turns[t].fu.actions[turns[t].j]) THEN @ + 1 ELSE @]
           e == executeAction(r.fu.actions[r.j], out)
       IN IF e.threw THEN Becomes(t, Advance(WithError(r, e.msg), chatHistory))
          ELSE IF r.j < Len(r.fu.actions)
          THEN Becomes(t, [turn |-> [r EXCEPT !.j = r.j + 1], hist |-> chatHistory])
          ELSE Becomes(t, Advance([r EXCEPT !.response.content = r.fu.content],
                                  chatHistory))
    /\ UNCHANGED <<userAnswers, calls, gwVars, parseVars, libVars, chatVars>>

\* lines 60-73: executeAction settles for followUpResponse.actions[j]
FollowToolResolved(t, out) ==
    /\ turns[t].pc = "AwaitFollowTool"
    /\ LET r == turns[t]
           e == executeAction(r.fu.actions[r.j], out)
       IN IF e.threw THEN Becomes(t, Advance(WithError(r, e.msg), chatHistory))
          ELSE IF r.j < Len(r.fu.actions)
          THEN Becomes(t, [turn |-> [r EXCEPT !.j = r.j + 1], hist |-> chatHistory])
          ELSE Becomes(t, Advance([r EXCEPT !.response.content = r.fu.content],
                                  chatHistory))
    /\ UNCHANGED <<userAnswers, calls, gwVars, parseVars, libVars, chatVars>>

QuestionIds == {"q1"}

\* the agent as constructed: lines 8-14
AgentInit ==
    /\ turns = [t \in Turns |-> IdleTurn]
    /\ chatHistory = <<>>
    /\ userAnswers = [q \in QuestionIds |-> "unset"]
    /\ calls = 0

----------------------------------------------------------------------------
(* PromptHandler and the chat view's script *)

Welcome == [role |-> "assistant", id |-> ""]

Processing == [role |-> "system", id |-> "processing"]

\* messages.some(m => m.id === 'processing')
HasProcessing(msgs) == \E k \in 1..Len(msgs) : msgs[k].id = "processing"

IsNotProcessing(m) == m.id # "processing"

\* PromptHandler.js lines 30-35 and 419-422: the view is resolved and shows
\* the welcome message
ChatInit ==
    /\ messages = <<Welcome>>
    /\ hostQueue = <<>>
    /\ viewQueue = <<>>
    /\ isProcessing = FALSE
    /\ sends = 0

\* lines 340-363 of the view script; an empty text or a set flag makes the
\* call do nothing
sendMessage(text) ==
    /\ IF text = "" \/ isProcessing
       THEN UNCHANGED <<isProcessing, hostQueue, sends>>
       ELSE /\ sends < MaxSends
            /\ isProcessing' = TRUE
            /\ hostQueue' = Append(hostQueue, text)
            /\ sends' = sends + 1
    /\ UNCHANGED <<messages, viewQueue, agentVars, gwVars, parseVars, libVars>>

\* lines 373-391 and 407-415 of the view script: an updateChat post arrives
updateChat ==
    /\ viewQueue # <<>>
    /\ isProcessing' = IF HasProcessing(Head(viewQueue)) THEN isProcessing ELSE FALSE
    /\ viewQueue' = Tail(viewQueue)
    /\ UNCHANGED <<messages, hostQueue, sends, agentVars, gwVars, parseVars, libVars>>

\* lines 37-45 and 55-79: a sendMessage post arrives and handleUserMessage
\* runs up to its await of processPrompt.  _updateChatView posts the message
\* list as it is at the time of the post.
handleUserMessage(t) ==
    /\ hostQueue # <<>>
    /\ LET withUser == Append(messages, [role |-> "user", id |-> ""])
           withProcessing == Append(withUser, Processing)
       IN /\ messages' = withProcessing
          /\ viewQueue' = viewQueue \o <<withUser, withProcessing>>
    /\ hostQueue' = Tail(hostQueue)
    /\ turns[t].pc = "Idle"
    /\ processPrompt(t, Head(hostQueue))
    /\ UNCHANGED <<isProcessing, sends>>

\* lines 79-117: processPrompt has returned and handleUserMessage finishes
handleUserMessageEnd(t) ==
    /\ turns[t].pc = "Done"
    /\ LET shown == Append(SelectSeq(messages, IsNotProcessing),
                           [role |-> "assistant", id |-> ""])
       IN /\ messages' = shown
          /\ viewQueue' = Append(viewQueue, shown)
    /\ turns' = [turns EXCEPT ![t] = IdleTurn]
    /\ UNCHANGED <<hostQueue, isProcessing, sends, chatHistory, userAnswers,
                   calls, gwVars, parseVars, libVars>>

----------------------------------------------------------------------------
(* The components outside the agent turn, before any use *)

NoToolCall ==
    [ action |-> [tool |-> "", command |-> "", params |-> <<>>],
      out |-> "none", args |-> <<>>,
      result |-> ToolResult(FALSE, 0, "none", "", FALSE, FALSE, FALSE) ]

ToolQuiet == toolCall = NoToolCall

NoDbCall ==
    [ op |-> "none", ret |-> FALSE, found |-> <<>>, threw |-> FALSE,
      type |-> "none", k |-> 0, before |-> EmptyStore, file |-> NoFile,
      saved |-> "no" ]

StoreQuiet ==
    /\ store = EmptyStore
    /\ probe = EmptyStore
    /\ disk = NoFile
    /\ dbLast = NoDbCall

IndexQuiet ==
    /\ workspace = [open |-> FALSE, files |-> <<>>, places |-> <<>>]
    /\ vectorDB = EmptyStore
    /\ isInitializing = FALSE
    /\ pass = NoPass

ChunkQuiet ==
    /\ chunkIn = [lines |-> <<0>>, budget |-> 0]
    /\ chunkOut = <<>>
    /\ chunkPc = "unused"

SessionQuiet ==
    /\ codebaseContext = NoSummary
    /\ contextFile = NoContextFile
    /\ vectorDBFile = NoFile
    /\ context = NoContextCall

TermQuiet ==
    /\ terminalManager = NewTerminalManager
    /\ termCall = NoTermCall

LibQuiet == ToolQuiet /\ StoreQuiet /\ IndexQuiet /\ ChunkQuiet /\ SessionQuiet /\ TermQuiet

----------------------------------------------------------------------------
(* parseResponse on its own *)

ParseQuiet ==
    /\ parseIn = <<>>
    /\ parseOut = parseResponse(<<>>)
    /\ parsePc = "unused"

ParseInit ==
    /\ parseIn \in RawTexts
    /\ parseOut = parseResponse(<<>>)
    /\ parsePc = "ready"

\* one call of parseResponse on the text drawn at the start
ParseCall ==
    /\ parsePc = "ready"
    /\ parseOut' = parseResponse(parseIn)
    /\ parsePc' = "done"
    /\ UNCHANGED <<parseIn, gwVars, agentVars, chatVars, libVars>>

GwQuiet ==
    /\ config = [provider |-> "ollama", apiKey |-> FALSE]
    /\ lastGw = NoCall

InitParse == ParseInit /\ GwQuiet /\ AgentInit /\ ChatInit /\ LibQuiet

NextParse == ParseCall

SpecParse == InitParse /\ [][NextParse]_vars

----------------------------------------------------------------------------
(* generateResponse on its own *)

\* replies a provider gives in the gateway runs
GatewayRaws ==
    { <<>>,
      <<Tok("TXT")>>,
      <<Tok("S"), Tok("TXT"), Tok("E")>>,
      <<Tok("S"), Tok("LB"), Tok("RB"), Tok("E")>>,
      WellFormed("hi", <<>>, <<>>),
      WellFormed("hi", <<>>, <<WellFormedQ>>),
      WellFormed("", <<>>, <<WellFormedQ, WellFormedQ>>),
      WellFormed("", <<>>, <<>>),
      WellFormed("ok", <<>>, <<>>),
      WellFormed("ok", <<>>, <<EmptyTextQ>>),
      <<Tok("S"), Tok("LB"), Tok("TXT"), Tok("RB"), Tok("E")>>,
      WellFormed("hi", <<[tool |-> "Nope", command |-> "readFile"]>>, <<WellFormedQ>>),
      WellFormed("hi", <<[tool |-> "FileEditor", command |-> "editFile"]>>, <<>>),
      WellFormed("", <<[tool |-> "FileManager", command |-> "readFile"]>>, <<>>) }

GwInit ==
    /\ config \in Configs
    /\ lastGw = NoCall

\* lines 35-78 with line 66: the call and what it leaves in config
Called(g) ==
    /\ lastGw' = g
    /\ config' = [config EXCEPT !.provider = g.provider]

\* one call of generateResponse, with the outcome of the provider request
GenerateCall ==
    /\ \E outcome \in ProviderOutcomes(GatewayRaws) :
           Called(generateResponse(config, outcome))
    /\ UNCHANGED <<parseVars, libVars, agentVars, chatVars>>

InitGateway == GwInit /\ ParseQuiet /\ AgentInit /\ ChatInit /\ LibQuiet

NextGateway == GenerateCall

SpecGateway == InitGateway /\ [][NextGateway]_vars

----------------------------------------------------------------------------
(* executeAction on its own *)

\* tool names an action can carry: the registered ones, one that no object
\* answers to, and one every object answers to
ToolNames == DOMAIN Tools \cup Inherited \cup {"Nope"}

\* command names an action can carry
CommandNames ==
    UNION {Tools[t] : t \in DOMAIN Tools}
      \cup UNION {Fields[t] : t \in DOMAIN Tools}
      \cup Inherited \cup {"nope"}

ToolParams == {<<>>, <<"a">>, <<"a", "b">>}

ToolActions == [tool : ToolNames, command : CommandNames, params : ToolParams]

\* line 29: the call made, if any, takes params spread into its arguments
Executed(action, out, e) ==
    [ action |-> action,
      out |-> IF e.invoked > 0 THEN out ELSE "none",
      args |-> IF e.invoked > 0 THEN action.params ELSE <<>>,
      result |-> e ]

\* one call of executeAction
ExecuteCall ==
    /\ \E action \in ToolActions, out \in ToolOutcomes :
           toolCall' = Executed(action, out, executeAction(action, out))
    /\ UNCHANGED <<parseVars, gwVars, agentVars, chatVars, storeVars, indexVars,
                   chunkVars, sessionVars, termVars>>

InitTools == ToolQuiet /\ StoreQuiet /\ IndexQuiet /\ ChunkQuiet /\ SessionQuiet /\ TermQuiet /\ ParseQuiet /\ GwQuiet /\ AgentInit /\ ChatInit

NextTools == ExecuteCall

SpecTools == InitTools /\ [][NextTools]_vars

----------------------------------------------------------------------------
(* LocalVectorDB on its own: one store that is added to, saved, loaded and
   searched, and another that loads the same file *)

\* the chunks and embeddings the store is given
Documents ==
    { [content |-> "c1", path |-> "a.js"],
      [content |-> "c2", path |-> "a.js"] }

Vectors == {"v1", "v2"}

StoredDocument == [content |-> "c1", path |-> "a.js"]

\* what the snapshot file holds at the start
Files ==
    { NoFile, Garbage,
      Snapshot(FALSE, <<>>, TRUE, <<StoredDocument>>),
      Snapshot(TRUE, <<"v1">>, TRUE, <<>>),
      Snapshot(TRUE, <<"v1">>, TRUE, <<StoredDocument, StoredDocument>>),
      Snapshot(TRUE, <<"v1">>, TRUE, <<StoredDocument>>) }

WriteOutcomes == {"ok", "failed", "partial"}

StoreInit ==
    /\ store = EmptyStore
    /\ probe = EmptyStore
    /\ disk \in Files
    /\ dbLast = NoDbCall

\* what a LocalVectorDB call leaves alone besides the stores and the file
StoreFrame ==
    UNCHANGED <<parseVars, gwVars, agentVars, chatVars, toolVars, indexVars,
                chunkVars, sessionVars, termVars>>

DbCall(op, before) ==
    [NoDbCall EXCEPT !.op = op, !.before = before, !.file = disk]

Add(document, vector) ==
    /\ Len(store.vectors) < MaxStore
    /\ store' = add(store, document, vector)
    /\ dbLast' = DbCall("add", store)
    /\ UNCHANGED <<probe, disk>>
    /\ StoreFrame

Saved(r) ==
    /\ store' = r.store
    /\ disk' = r.disk
    /\ dbLast' = [DbCall("save", store) EXCEPT
                      !.threw = r.threw, !.type = r.type,
                      !.saved = IF r.threw THEN "failed" ELSE "yes"]
    /\ UNCHANGED probe
    /\ StoreFrame

Save(written) == Saved(save(store, disk, written))

Loaded(r) ==
    /\ store' = r.store
    /\ dbLast' = [DbCall("load", store) EXCEPT !.ret = r.ret, !.threw = r.threw]
    /\ UNCHANGED <<probe, disk>>
    /\ StoreFrame

Load == Loaded(load(store, disk))

ProbeLoaded(r) ==
    /\ probe' = r.store
    /\ dbLast' = [DbCall("probeLoad", probe) EXCEPT
                      !.ret = r.ret, !.threw = r.threw, !.saved = dbLast.saved]
    /\ UNCHANGED <<store, disk>>
    /\ StoreFrame

ProbeLoad == ProbeLoaded(load(probe, disk))

Search(k) ==
    /\ dbLast' = [DbCall("search", store) EXCEPT !.found = search(store, k), !.k = k]
    /\ UNCHANGED <<store, probe, disk>>
    /\ StoreFrame

NextStore ==
    \/ \E d \in Documents, v \in Vectors : Add(d, v)
    \/ \E w \in WriteOutcomes : Save(w)
    \/ Load
    \/ ProbeLoad
    \/ \E k \in 0..MaxK : Search(k)

InitStore == StoreInit /\ ToolQuiet /\ IndexQuiet /\ ChunkQuiet /\ SessionQuiet /\ TermQuiet /\ ParseQuiet /\ GwQuiet /\ AgentInit /\ ChatInit

SpecStore == InitStore /\ [][NextStore]_vars

----------------------------------------------------------------------------
(* Indexing on its own: a workspace that does not change, indexed again and
   again *)

\* the workspaces indexed: no folder open, or a folder of up to MaxFiles files
Workspaces ==
    {[open |-> FALSE, files |-> <<>>, places |-> <<>>]}
      \cup {[open |-> TRUE, files |-> f, places |-> [i \in 1..Len(f) |-> "plain"]] :
                f \in SeqsUpTo(FileKinds, MaxFiles)}

IndexInit ==
    /\ workspace \in Workspaces
    /\ vectorDB = EmptyStore
    /\ isInitializing = FALSE
    /\ pass = NoPass

IndexFrame ==
    UNCHANGED <<parseVars, gwVars, agentVars, chatVars, toolVars, storeVars,
                chunkVars, termVars>>

NextIndex ==
    \/ initializeCodebase /\ IndexFrame
    \/ initializeCodebaseSkipped /\ IndexFrame
    \/ initializeCodebaseFailed /\ IndexFrame
    \/ workspace.open /\ indexWorkspace /\ IndexFrame
    \/ \E ok \in BOOLEAN : FilesListed(ok) /\ IndexFrame
    \/ FileIndexed /\ IndexFrame
    \/ \E w \in WriteOutcomes : VectorDBSaved(w) /\ IndexFrame
    \/ \E w \in WriteOutcomes : analyzeCodebase(w) /\ IndexFrame
    \/ \E ok \in BOOLEAN : initializeCodebaseEnd(ok) /\ IndexFrame

\* workspaces of readable text files lying anywhere
PlacedWorkspaces ==
    {[open |-> TRUE, files |-> [i \in 1..Len(w) |-> "small"], places |-> w] :
        w \in SeqsUpTo(Places, MaxFiles)}

ListingInit ==
    /\ workspace \in PlacedWorkspaces
    /\ vectorDB = EmptyStore
    /\ isInitializing = FALSE
    /\ pass = NoPass

InitListing == ListingInit /\ ToolQuiet /\ StoreQuiet /\ ChunkQuiet /\ SessionQuiet /\ TermQuiet /\ ParseQuiet /\ GwQuiet /\ AgentInit /\ ChatInit

SpecListing == InitListing /\ [][NextIndex]_vars

InitIndex == IndexInit /\ ToolQuiet /\ StoreQuiet /\ ChunkQuiet /\ SessionQuiet /\ TermQuiet /\ ParseQuiet /\ GwQuiet /\ AgentInit /\ ChatInit

SpecIndex == InitIndex /\ [][NextIndex]_vars

----------------------------------------------------------------------------
(* Sessions: the extension activated again and again in one workspace,
   initializing the codebase and asked for context, while the files of the
   workspace may go *)

\* a closed workspace, or one of up to MaxFiles files that are indexed or not
SessionWorkspaces ==
    {[open |-> FALSE, files |-> <<>>, places |-> <<>>]}
      \cup {[open |-> TRUE, files |-> f, places |-> [i \in 1..Len(f) |-> "plain"]] :
                f \in SeqsUpTo({"small", "binary"}, MaxFiles)}

\* the first activation; the workspace may hold a context file already
SessionInit ==
    /\ workspace \in SessionWorkspaces
    /\ vectorDB = EmptyStore
    /\ isInitializing = FALSE
    /\ pass = NoPass
    /\ codebaseContext = NoSummary
    /\ contextFile \in {NoContextFile, GarbageContextFile, SummaryFile(0)}
    /\ vectorDBFile = NoFile
    /\ context = NoContextCall

InitSession == SessionInit /\ ToolQuiet /\ StoreQuiet /\ ChunkQuiet /\ TermQuiet /\ ParseQuiet /\ GwQuiet /\ AgentInit /\ ChatInit

NextSession ==
    \/ initializeCodebase /\ IndexFrame
    \/ initializeCodebaseSkipped /\ IndexFrame
    \/ initializeCodebaseFailed /\ IndexFrame
    \/ \E ok \in BOOLEAN : FilesListed(ok) /\ IndexFrame
    \/ FileIndexed /\ IndexFrame
    \/ \E w \in WriteOutcomes : VectorDBSaved(w) /\ IndexFrame
    \/ \E w \in WriteOutcomes : analyzeCodebase(w) /\ IndexFrame
    \/ \E ok \in BOOLEAN : initializeCodebaseEnd(ok) /\ IndexFrame
    \/ getRelevantContext /\ IndexFrame
    \/ activate /\ IndexFrame
    \/ ContextFileLost /\ IndexFrame
    \/ FilesRemoved /\ IndexFrame

SpecSession == InitSession /\ [][NextSession]_vars

----------------------------------------------------------------------------
(* chunkDocument on its own *)

\* the documents chunked: one to MaxLines lines of length up to MaxLine
\* (String.split gives at least one line)
LineSeqs == SeqsUpTo(0..MaxLine, MaxLines) \ {<<>>}

ChunkInit ==
    /\ chunkIn \in [lines : LineSeqs, budget : 0..MaxBudget]
    /\ chunkOut = <<>>
    /\ chunkPc = "ready"

\* one call of chunkDocument on the document drawn at the start
ChunkCall ==
    /\ chunkPc = "ready"
    /\ chunkOut' = ChunkLines(chunkIn.lines, chunkIn.budget)
    /\ chunkPc' = "done"
    /\ UNCHANGED <<chunkIn, parseVars, gwVars, agentVars, chatVars, toolVars,
                   storeVars, indexVars, sessionVars, termVars>>

InitChunk == ChunkInit /\ ToolQuiet /\ StoreQuiet /\ IndexQuiet /\ SessionQuiet /\ TermQuiet /\ ParseQuiet /\ GwQuiet /\ AgentInit /\ ChatInit

NextChunk == ChunkCall

SpecChunk == InitChunk /\ [][NextChunk]_vars

----------------------------------------------------------------------------
(* One TerminalCommandManager, called again and again *)

\* a command: characters, of which some are white space
Commands == SeqsUpTo({[k |-> "WS"], [k |-> "CH"]}, MaxCommand)

TermFrame ==
    UNCHANGED <<parseVars, gwVars, agentVars, chatVars, toolVars, storeVars,
                indexVars, chunkVars, sessionVars>>

InitTerminal == TermQuiet /\ ToolQuiet /\ StoreQuiet /\ IndexQuiet /\ ChunkQuiet /\ SessionQuiet /\ ParseQuiet /\ GwQuiet /\ AgentInit /\ ChatInit

NextTerminal ==
    \/ \E command \in Commands, created \in BOOLEAN, sent \in BOOLEAN :
           executeCommand(command, created, sent) /\ TermFrame
    \/ executeCommandEnd /\ TermFrame
    \/ TerminalExited /\ TermFrame

SpecTerminal == InitTerminal /\ [][NextTerminal]_vars

----------------------------------------------------------------------------
(* The agent, called by a caller that awaits each call: turns step by step *)

ReadFile == [tool |-> "FileManager", command |-> "readFile"]

EditFile == [tool |-> "FileEditor", command |-> "editFile"]

NoSuchTool == [tool |-> "Nope", command |-> "readFile"]

\* the replies the model gives when turns are followed step by step
AgentRaws ==
    { <<Tok("TXT")>>, <<Tok("S"), Tok("TXT"), Tok("E")>> }
      \cup {WellFormed("hi", a, <<>>) : a \in SeqsUpTo({ReadFile, EditFile, NoSuchTool}, MaxActions)}
      \cup {WellFormed("hi", <<>>, q) : q \in SeqsUpTo({WellFormedQ, EmptyTextQ}, MaxQuestions)}
      \cup {WellFormed("hi", <<ReadFile>>, <<WellFormedQ>>)}

\* the replies the model gives to a follow-up call
FollowUpRaws ==
    { <<Tok("TXT")>>,
      WellFormed("done", <<>>, <<>>),
      WellFormed("done", <<EditFile>>, <<>>),
      WellFormed("done", <<EditFile, ReadFile>>, <<>>),
      WellFormed("done", <<>>, <<WellFormedQ>>) }

Prompts == {"p"}

Answers == {"", "a"}

AgentConfigs ==
    { [provider |-> "ollama", apiKey |-> FALSE],
      [provider |-> "openai", apiKey |-> FALSE] }

Init ==
    /\ AgentInit
    /\ config \in AgentConfigs
    /\ lastGw = NoCall
    /\ ParseQuiet
    /\ ChatInit
    /\ LibQuiet

Next ==
    \/ calls < MaxCalls /\ \E p \in Prompts : CallProcessPrompt(1, p)
    \/ calls < MaxCalls /\ \E a \in Answers, q \in QuestionIds : handleUserAnswer(1, a, q)
    \/ \E ok \in BOOLEAN : ContextResolved(1, ok)
    \/ \E o \in ProviderOutcomes(AgentRaws) : ModelResolved(1, o)
    \/ \E out \in ToolOutcomes : ToolResolved(1, out)
    \/ \E o \in ProviderOutcomes(FollowUpRaws) : FollowUpResolved(1, o)
    \/ \E out \in ToolOutcomes : FollowToolResolved(1, out)

Spec == Init /\ [][Next]_vars

----------------------------------------------------------------------------
(* The agent over many calls: the conversation history *)

HistoryRaws == { <<Tok("TXT")>>, WellFormed("hi", <<>>, <<WellFormedQ>>) }

HistoryOutcomes ==
    {o \in ProviderOutcomes(HistoryRaws) : o.kind \in {"ok", "refused"}}

InitHistory ==
    /\ AgentInit
    /\ GwQuiet
    /\ ParseQuiet
    /\ ChatInit
    /\ LibQuiet

NextHistory ==
    \/ calls < MaxHistoryCalls /\ \E p \in Prompts : CallProcessPrompt(1, p)
    \/ calls < MaxHistoryCalls /\ \E q \in QuestionIds : handleUserAnswer(1, "a", q)
    \/ \E ok \in BOOLEAN : ContextResolved(1, ok)
    \/ \E o \in HistoryOutcomes : ModelResolved(1, o)

SpecHistory == InitHistory /\ [][NextHistory]_vars

----------------------------------------------------------------------------
(* The chat front end driving the agent *)

ChatOutcomes ==
    {o \in ProviderOutcomes({<<Tok("TXT")>>}) : o.kind \in {"ok", "refused"}}

\* the slot a new execution takes: the lowest one not in use
FreeSlot(t) ==
    /\ turns[t].pc = "Idle"
    /\ \A u \in 1..(t - 1) : turns[u].pc # "Idle"

InitChat ==
    /\ AgentInit
    /\ GwQuiet
    /\ ParseQuiet
    /\ ChatInit
    /\ LibQuiet

NextChat ==
    \/ \E text \in {"", "m"} : sendMessage(text)
    \/ updateChat
    \/ \E t \in Turns : FreeSlot(t) /\ handleUserMessage(t)
    \/ \E t \in Turns : handleUserMessageEnd(t)
    \/ \E t \in Turns : ContextResolved(t, TRUE)
    \/ \E t \in Turns, o \in ChatOutcomes : ModelResolved(t, o)

SpecChat == InitChat /\ [][NextChat]_vars

----------------------------------------------------------------------------
(* Properties of parseResponse *)

ParseNorm == Normalize(parseIn)

\* some start marker stands before some end marker
StartBeforeAnEnd(norm) ==
    \E i, j \in 1..Len(norm) : i < j /\ norm[i].k = "S" /\ norm[j].k = "E"

FirstOf(norm, kind) ==
    CHOOSE i \in 1..Len(norm) :
        norm[i].k = kind /\ \A j \in 1..Len(norm) : norm[j].k = kind => i <= j

LastOf(norm, kind) ==
    CHOOSE i \in 1..Len(norm) :
        norm[i].k = kind /\ \A j \in 1..Len(norm) : norm[j].k = kind => j <= i

Has(norm, kind) == \E i \in 1..Len(norm) : norm[i].k = kind

\* what lies between the first start marker and the last end marker
WidestPayload(norm) ==
    Trim(SubSeq(norm, FirstOf(norm, "S") + 1, LastOf(norm, "E") - 1))

\* what lies between the first start marker and the earliest end marker
EarliestPayload(norm) ==
    Trim(SubSeq(norm, FirstOf(norm, "S") + 1, FirstOf(norm, "E") - 1))

ValidObject(js) == BraceWrapped(js) /\ JsonParses(js)

NarrativeOnly(r) ==
    r.actions = <<>> /\ r.questions = <<>> /\ r.requiresUserInput = FALSE

\* the markers wrap something that does not decode
DecodeFailed ==
    /\ parsePc = "done"
    /\ StartBeforeAnEnd(ParseNorm)
    /\ ~ValidObject(WidestPayload(ParseNorm))

DecodeSucceeded ==
    /\ parsePc = "done"
    /\ StartBeforeAnEnd(ParseNorm)
    /\ ValidObject(WidestPayload(ParseNorm))

\* C7: parseResponse never ends in an exception, and when the markers wrap
\* something that is not a valid JSON object the result has no actions, no
\* questions and requiresUserInput = false.
C7_ParseNeverThrows ==
    parsePc = "done" =>
        /\ ~parseOut.threw
        /\ DecodeFailed => NarrativeOnly(parseOut.value)

\* the brace test passed, JSON.parse failed, and the call has returned
C7_Witness ==
    /\ DecodeFailed
    /\ BraceWrapped(WidestPayload(ParseNorm))
    /\ ~JsonParses(WidestPayload(ParseNorm))
    /\ parseOut.value.content.head = "parseError"

Decoded(js, raw, r) ==
    IF ValidObject(js) THEN r = ParsedResult(js, raw)
    ELSE r.content.head = "parseError" /\ NarrativeOnly(r)

\* C9 as stated: the payload runs from the first start marker to the
\* earliest end marker; if a marker is missing or that earliest end marker
\* is not after the first start marker, the raw text is the narrative and
\* there are no actions, no questions and requiresUserInput = false.
C9_EarliestEndMarker ==
    parsePc = "done" =>
        IF /\ Has(ParseNorm, "S") /\ Has(ParseNorm, "E")
           /\ FirstOf(ParseNorm, "S") < FirstOf(ParseNorm, "E")
        THEN Decoded(EarliestPayload(ParseNorm), parseIn, parseOut.value)
        ELSE parseOut.value = UnstructuredResult(parseIn)

\* C9 amended: the payload runs from the first start marker to the LAST end
\* marker of the text after line breaks are removed and blanks collapsed;
\* if a marker is missing or the last end marker is not after the first
\* start marker, the raw text is the narrative and there are no actions, no
\* questions and requiresUserInput = false.
C9_LastEndMarker ==
    parsePc = "done" =>
        IF StartBeforeAnEnd(ParseNorm)
        THEN Decoded(WidestPayload(ParseNorm), parseIn, parseOut.value)
        ELSE parseOut.value = UnstructuredResult(parseIn)

\* an end marker stands before the first start marker and another after
\* it, the payload up to the last one decodes, and the call has returned
C9_Witness ==
    /\ DecodeSucceeded
    /\ FirstOf(ParseNorm, "E") < FirstOf(ParseNorm, "S")
    /\ parseOut.value = ParsedResult(WidestPayload(ParseNorm), parseIn)

\* both markers present but in the wrong order: the raw text comes back
C9_WitnessOutOfOrder ==
    /\ parsePc = "done"
    /\ Has(ParseNorm, "S") /\ Has(ParseNorm, "E")
    /\ ~StartBeforeAnEnd(ParseNorm)
    /\ parseOut.value = UnstructuredResult(parseIn)

QuestionOk(q) == q.id # "" /\ q.text # "" /\ q.type # "" /\ q.type # "none"

\* C10 as stated: on a successfully parsed payload only the questions with
\* a non-empty id, text and type and a type other than "none" are surfaced,
\* and requiresUserInput is (number of surfaced questions > 0).
C10_QuestionsFiltered ==
    DecodeSucceeded =>
        LET asked == Member(WidestPayload(ParseNorm), "QUESTIONS").q
            kept == SelectSeq(asked, QuestionOk)
        IN /\ parseOut.value.questions = kept
           /\ parseOut.value.requiresUserInput = (Len(kept) > 0)

\* C6: generateResponse never ends in an exception; with openai or claude
\* configured and no API key it issues no provider request; and after that
\* configuration failure or a failure of a provider call path the error has
\* been reported and the result is the safe default (actions = [],
\* questions = [], requiresUserInput = false).
C6_GatewayNeverPropagates ==
    lastGw.outcome # "none" =>
        /\ ~lastGw.threw
        /\ (lastGw.cfg.provider \in {"openai", "claude"} /\ ~lastGw.cfg.apiKey)
              => /\ lastGw.issued = "none"
                 /\ lastGw.reported = "Configuration"
                 /\ lastGw.value = Fallback
        /\ (lastGw.issued # "none" /\ lastGw.outcome # "ok")
              => /\ lastGw.reported \in {"API", "Unknown"}
                 /\ lastGw.value = Fallback
        /\ lastGw.value = Fallback => NarrativeOnly(lastGw.value)

\* a call with claude configured and no key has returned the safe default
C6_Witness ==
    /\ lastGw.outcome # "none"
    /\ lastGw.cfg = [provider |-> "claude", apiKey |-> FALSE]
    /\ lastGw.issued = "none"
    /\ lastGw.value = Fallback

\* a provider request failed and the safe default came back
C6_WitnessProviderFailure ==
    /\ lastGw.outcome = "refused"
    /\ lastGw.issued = "openai"
    /\ lastGw.value = Fallback

\* the members of the object the markers wrap
PayloadMember(kind) == Member(WidestPayload(ParseNorm), kind)

\* C31 as stated: when the markers wrap a valid JSON object the narrative is
\* the chat member (empty when absent), the actions are the actions member
\* and the questions the questions member (each empty when absent).
C31_DecodedFieldsVerbatim ==
    DecodeSucceeded =>
        /\ parseOut.value.content = Narrative("chat", PayloadMember("CHAT").c, "", <<>>)
        /\ parseOut.value.actions = PayloadMember("ACTIONS").a
        /\ parseOut.value.questions = PayloadMember("QUESTIONS").q

\* C31 amended: when the markers wrap a valid JSON object the actions are
\* the actions member and the questions the questions member (each empty
\* when absent); the narrative is the chat member when that is a non-empty
\* text, and the whole raw text when chat is absent or empty.
C31_DecodedFieldsOrRawText ==
    DecodeSucceeded =>
        /\ parseOut.value.actions = PayloadMember("ACTIONS").a
        /\ parseOut.value.questions = PayloadMember("QUESTIONS").q
        /\ parseOut.value.content =
              IF PayloadMember("CHAT").c # ""
              THEN Narrative("chat", PayloadMember("CHAT").c, "", <<>>)
              ELSE Narrative("raw", "", "", parseIn)

\* a payload with chat "hi" and two actions has been decoded
C31_Witness ==
    /\ DecodeSucceeded
    /\ parseOut.value.content.chat = "hi"
    /\ Len(parseOut.value.actions) = 2

----------------------------------------------------------------------------
(* Properties of the agent loop *)

CarriesFailureText(content) ==
    content.head \in {"error", "fallback"} \/ content.errs # <<>>

\* C1 (its claim about the final result): a turn ends by returning a
\* response, never by throwing, and when context assembly, a gateway call
\* or a tool action failed during the turn the returned content carries
\* failure text.
C1_TurnEndsWithFailureText ==
    \A t \in Turns :
        turns[t].pc = "Done" =>
            /\ turns[t].ended = "returned"
            /\ turns[t].failed => CarriesFailureText(turns[t].result.content)

\* the number of FileManager.readFile actions among the first n of acts
ReadsAmong(acts, n) ==
    Cardinality({k \in 1..n : k <= Len(acts) /\ acts[k] = ReadFile})

C3_HistoryAtMostTen ==
    (\A t \in Turns : turns[t].pc \in {"Idle", "Done"})
        => Len(chatHistory) <= HistoryLimit

\* C4 as stated: two executions of processPrompt are never in progress at
\* the same time.
C4_OneTurnInFlight ==
    Cardinality({t \in Turns : turns[t].pc \notin {"Idle", "Done"}}) <= 1

QuestionsImplyInput(r) == Len(r.questions) > 0 => r.requiresUserInput

\* C5: every response of the gateway (decoded or fallback) and every
\* response a turn holds or returns has requiresUserInput set when it has
\* questions.
C5_QuestionsImplyInput ==
    /\ QuestionsImplyInput(lastGw.value)
    /\ \A t \in Turns :
          /\ QuestionsImplyInput(turns[t].response)
          /\ QuestionsImplyInput(turns[t].fu)
          /\ QuestionsImplyInput(turns[t].result)

\* a turn has returned the model's questions
C5_Witness ==
    \E t \in Turns :
        /\ turns[t].pc = "Done"
        /\ Len(turns[t].result.questions) = 2
        /\ turns[t].result.requiresUserInput
        /\ lastGw.value.questions = turns[t].result.questions

\* C23: a turn whose response from the gateway (the one line 32 receives)
\* carries questions returns those questions with requiresUserInput set and
\* no actions, and the history is what it was when processPrompt was
\* entered.
C23_QuestionsShortCircuit ==
    \A t \in Turns :
        (turns[t].pc = "Done" /\ Len(turns[t].response.questions) > 0) =>
            /\ turns[t].result.questions = turns[t].response.questions
            /\ turns[t].result.requiresUserInput
            /\ turns[t].result.actions = <<>>
            /\ chatHistory = turns[t].before

\* a turn entered with a history of one entry has dispatched the action of
\* a response that also carries a question, and has returned the question
C23_Witness ==
    \E t \in Turns :
        /\ turns[t].pc = "Done"
        /\ turns[t].i = 1
        /\ turns[t].followUps = 1
        /\ Len(turns[t].result.questions) = 1
        /\ Len(turns[t].before) = 1

\* C24: handleUserAnswer enters processPrompt with the prompt of the turn
\* that raised the question followed by the answer.
C24_AnswerAppendedToRaisingPrompt ==
    [][\A t \in Turns :
          ( /\ turns[t].pc = "Done"
            /\ turns[t].result.requiresUserInput
            /\ turns'[t] # turns[t]
            /\ Len(chatHistory') = Len(chatHistory) + 1 )
          => /\ turns'[t].pc = "AwaitContext"
             /\ turns'[t].prompt =
                    turns[t].prompt \o chatHistory'[Len(chatHistory')].content.chat]_vars

\* the turn returned its response at line 94, not the questions of line 78
\* and not the error response of the catch
Completed(r) ==
    /\ r.pc = "Done"
    /\ r.gatewayCalls > 0
    /\ Len(r.response.questions) = 0
    /\ r.result = r.response

\* what lines 87-90 push for the turn
Pushed(r) ==
    << [role |-> "user", content |-> UserText(r.prompt)],
       [role |-> "assistant", content |-> r.result.content] >>

\* C25: when a turn completes without questions (its caller awaiting it),
\* the history is the end of (the history the turn was entered with, the
\* user entry, the assistant entry): all of it when that is at most ten
\* entries long, else its last ten.
C25_HistoryAppendsAndTruncates ==
    \A t \in Turns :
        Completed(turns[t]) =>
            LET full == turns[t].before \o Pushed(turns[t])
                dropped == Len(full) - Len(chatHistory)
            IN /\ Len(chatHistory) =
                      IF Len(full) <= HistoryLimit THEN Len(full) ELSE HistoryLimit
               /\ \A n \in 1..Len(chatHistory) : chatHistory[n] = full[n + dropped]

\* a turn entered with a full history has completed
C25_Witness ==
    \E t \in Turns :
        /\ Completed(turns[t])
        /\ Len(turns[t].before) >= HistoryLimit
        /\ Len(chatHistory) = HistoryLimit

\* C26: once executeAction has failed with tool-not-found in a turn, the
\* turn dispatches nothing more.
C26_ToolNotFoundEndsDispatch ==
    \A t \in Turns :
        (\E n \in 1..Len(turns[t].response.content.errs) :
              turns[t].response.content.errs[n] = "Tool not found")
            => turns[t].pc \notin {"AwaitTool", "AwaitFollowUp", "AwaitFollowTool"}

\* the turn is between its call and its return
Running(r) == r.pc \notin {"Idle", "Done"}

\* what a step of a running turn may do, in the order of lines 24-94
InOrder(r, n, hist, histn) ==
    /\ n.pc = "AwaitModel" => r.pc = "AwaitContext"
    /\ n.gatewayCalls # r.gatewayCalls =>
          /\ n.gatewayCalls = r.gatewayCalls + 1
          /\ r.pc \in {"AwaitModel", "AwaitFollowUp"}
          /\ r.pc = "AwaitModel" => r.i = 0
    /\ n.i # r.i =>
          /\ n.i = r.i + 1
          /\ r.pc \in {"AwaitModel", "AwaitTool", "AwaitFollowUp", "AwaitFollowTool"}
          /\ r.pc = "AwaitFollowTool" => r.j = Len(r.fu.actions) \/ n.toolFailed
          /\ n.pc = "AwaitTool"
    /\ n.j # r.j =>
          /\ \/ r.pc = "AwaitFollowUp" /\ n.j = 1
             \/ r.pc = "AwaitFollowTool" /\ n.j = r.j + 1
          /\ n.pc = "AwaitFollowTool"
          /\ n.i = r.i
    /\ histn # hist =>
          /\ n.pc = "Done"
          /\ n.i = Len(n.response.actions)

\* C33: within a turn, context assembly ends before the gateway is called,
\* the gateway call ends before an action is dispatched, the actions are
\* dispatched one at a time in the order listed, each with its follow-up
\* call and the actions of that finished before the next, and the history
\* is written only after the last action.
C33_StepsInOrder ==
    [][\A t \in Turns :
          (Running(turns[t]) /\ turns'[t] # turns[t])
              => InOrder(turns[t], turns'[t], chatHistory, chatHistory')]_vars

\* a turn has dispatched two actions, the first with a follow-up call, and
\* has written the history
C33_Witness ==
    \E t \in Turns :
        /\ turns[t].pc = "Done"
        /\ turns[t].i = 2
        /\ turns[t].followUps >= 1
        /\ Len(chatHistory) = 2

\* C37: the actions of a follow-up response are dispatched without a
\* gateway call, so a turn calls the gateway at most once more than its
\* first response has actions.
C37_FollowUpActionsCallNoGateway ==
    /\ [](\A t \in Turns :
             turns[t].gatewayCalls <= 1 + Len(turns[t].response.actions))
    /\ [][\A t \in Turns :
              turns[t].pc = "AwaitFollowTool"
                  => turns'[t].gatewayCalls = turns[t].gatewayCalls]_vars

\* a turn has dispatched the readFile action of a follow-up response and
\* has ended after two gateway calls
C37_Witness ==
    \E t \in Turns :
        /\ turns[t].pc = "Done"
        /\ turns[t].j = 2
        /\ turns[t].fu.actions[2] = ReadFile
        /\ ~turns[t].toolFailed
        /\ turns[t].gatewayCalls = 2

----------------------------------------------------------------------------
(* Properties of provider selection *)

KnownProviders == {"ollama", "openai", "claude"}

\* C11: whenever generateResponse is called with a configured provider
\* outside {ollama, openai, claude}, the request goes to the Ollama call
\* path, and when that request succeeds the decoded reply (not the safe
\* default) is returned.
C11_UnknownProviderRoutesToOllama ==
    (lastGw.outcome # "none" /\ lastGw.cfg.provider \notin KnownProviders)
        => /\ lastGw.issued = "ollama"
           /\ lastGw.outcome = "ok" => lastGw.value # Fallback

----------------------------------------------------------------------------
(* Properties of ToolManager.executeAction *)

\* C12: executeAction validates before it invokes: a tool name that is not
\* registered gives the "Tool not found" error listing the available tools,
\* a command that is not an operation of the tool gives the "Command not
\* found" error, in both cases nothing is invoked; otherwise the named
\* operation is invoked exactly once with params as its arguments.
C12_ChecksBeforeInvoking ==
    toolCall # NoToolCall =>
        /\ toolCall.action.tool \notin DOMAIN Tools
              => /\ toolCall.result.threw
                 /\ toolCall.result.msg = "Tool not found"
                 /\ toolCall.result.listsTools
                 /\ toolCall.result.invoked = 0
        /\ (/\ toolCall.action.tool \in DOMAIN Tools
            /\ toolCall.action.command \notin Tools[toolCall.action.tool])
              => /\ toolCall.result.threw
                 /\ toolCall.result.msg = "Command not found"
                 /\ toolCall.result.invoked = 0
        /\ (/\ toolCall.action.tool \in DOMAIN Tools
            /\ toolCall.action.command \in Tools[toolCall.action.tool])
              => /\ toolCall.result.invoked = 1
                 /\ toolCall.result.target = "operation"
                 /\ toolCall.args = toolCall.action.params

\* C13: when the operation executeAction invoked fails, the exception the
\* caller gets is typed FileSystem and its message identifies the tool and
\* the command.
C13_OperationFailureTyped ==
    (/\ toolCall.action.tool = "FileManager"
     /\ toolCall.result.target = "operation"
     /\ toolCall.out = "fail")
        => /\ toolCall.result.threw
           /\ toolCall.result.type = "FileSystem"
           /\ toolCall.result.namesTool
           /\ toolCall.result.namesCommand

----------------------------------------------------------------------------
(* Properties of LocalVectorDB *)

\* the store the last call was made on
Target == IF dbLast.op = "probeLoad" THEN probe ELSE store

LoadCall == dbLast.op \in {"load", "probeLoad"}

EmptyAndDirty(s) == s.vectors = <<>> /\ s.documents = <<>> /\ s.isDirty

\* the file read by the last call parses and holds both arrays, of
\* different lengths
LengthsDiffer(file) ==
    /\ file.kind = "json"
    /\ file.hasVectors /\ file.hasDocuments
    /\ Len(file.vectors) # Len(file.documents)

\* C14: each store always holds as many vectors as documents, and a load of
\* a snapshot whose two arrays differ in length leaves the store empty and
\* dirty.
C14_VectorsMatchDocuments ==
    /\ Len(store.vectors) = Len(store.documents)
    /\ Len(probe.vectors) = Len(probe.documents)
    /\ (LoadCall /\ LengthsDiffer(dbLast.file)) => EmptyAndDirty(Target)

\* a store holding records has loaded a snapshot with one vector and two
\* documents
C14_Witness ==
    /\ dbLast.op = "load"
    /\ LengthsDiffer(dbLast.file)
    /\ Len(dbLast.before.vectors) > 0
    /\ EmptyAndDirty(store)

\* C15: when another store loads the file right after a save of the store
\* returned, the load returns true and the other store holds the same
\* vectors in the same order and as many documents.
C15_SaveLoadRoundTrip ==
    (dbLast.op = "probeLoad" /\ dbLast.saved = "yes")
        => /\ dbLast.ret
           /\ probe.vectors = store.vectors
           /\ Len(probe.documents) = Len(store.documents)

\* the file read by the last call cannot be adopted: it is missing, does
\* not parse, lacks an array, or its arrays differ in length
Unusable(file) ==
    \/ file.kind \in {"missing", "garbage"}
    \/ ~file.hasVectors
    \/ ~file.hasDocuments
    \/ Len(file.vectors) # Len(file.documents)

\* C16: load never throws, and on a snapshot that is missing, unparsable,
\* incomplete or of unequal lengths it returns false and leaves the store
\* empty and dirty, whatever it held before.
C16_LoadRecoversLocally ==
    LoadCall =>
        /\ ~dbLast.threw
        /\ Unusable(dbLast.file) => (~dbLast.ret /\ EmptyAndDirty(Target))

\* a store holding records has loaded a file that does not parse
C16_Witness ==
    /\ dbLast.op = "load"
    /\ dbLast.file.kind = "garbage"
    /\ Len(dbLast.before.vectors) > 0
    /\ ~dbLast.ret
    /\ EmptyAndDirty(store)

\* C17: when the write of save fails, the exception is a ToshimoError of a
\* declared ErrorType and the store is as it was, still dirty.
C17_SaveFailureTyped ==
    (dbLast.op = "save" /\ dbLast.threw)
        => /\ dbLast.type \in ErrorTypes
           /\ store = dbLast.before
           /\ store.isDirty

Smaller(a, b) == IF a < b THEN a ELSE b

\* C18: search returns the contents of the first min(k, n) documents of the
\* store, a function of k and the stored documents alone, and leaves the
\* store as it was.
C18_SearchFirstK ==
    dbLast.op = "search" =>
        /\ Len(dbLast.found) = Smaller(dbLast.k, Len(store.documents))
        /\ \A i \in 1..Len(dbLast.found) :
               dbLast.found[i] = store.documents[i].content
        /\ store = dbLast.before

\* a search for one entry in a store of two, and one for more than it holds
C18_Witness ==
    /\ dbLast.op = "search"
    /\ dbLast.k = 1
    /\ Len(store.documents) = 2
    /\ dbLast.found = <<store.documents[1].content>>

C18_WitnessFewer ==
    /\ dbLast.op = "search"
    /\ dbLast.k = 3
    /\ Len(store.documents) = 2
    /\ Len(dbLast.found) = 2

----------------------------------------------------------------------------
(* Properties of indexing *)

\* files whose chunks a pass adds when nothing fails
Indexable == {"small", "large"}

RECURSIVE ChunksFrom(_, _, _)
\* the chunks of the files of kinds in the set given, from position i on
ChunksFrom(files, i, kinds) ==
    IF i > Len(files) THEN <<>>
    ELSE (IF files[i] \in kinds THEN chunkDocument(i, files[i]) ELSE <<>>)
            \o ChunksFrom(files, i + 1, kinds)

\* the last invocation went through the loop over the files and returned
PassReturned == pass.pc = "Idle" /\ pass.ended = "returned"

\* C19 (as stated, for either entry point): once an invocation of
\* indexWorkspace or initializeCodebase has returned, the store holds the
\* chunks of one pass over the workspace, each once, however many
\* invocations came before.
C19_IndexingIdempotent ==
    PassReturned
        => vectorDB.documents =
               ChunksFrom(workspace.files, 1, Indexable \cup {"unembeddable"})

\* C19 (amended): once an invocation of initializeCodebase has returned, the
\* store holds the chunks of one pass over the workspace, each once and each
\* with one vector, however many invocations came before.
C19_InitializeRebuilds ==
    (PassReturned /\ pass.by = "initializeCodebase")
        => /\ vectorDB.documents =
                  ChunksFrom(workspace.files, 1, Indexable \cup {"unembeddable"})
           /\ Len(vectorDB.vectors) = Len(vectorDB.documents)

\* a second invocation, by initializeCodebase, has returned on a workspace
\* that yields records
C19_Witness ==
    /\ PassReturned
    /\ pass.by = "initializeCodebase"
    /\ pass.made >= 2
    /\ Len(vectorDB.documents) >= 2

\* the positions of the files that have records in the store
FilesIndexed(db) == {db.documents[n].path : n \in 1..Len(db.documents)}

\* C32: once an initializeCodebase has returned, the store holds records of
\* allow-listed files only, and the counter of the pass is the number of
\* files that were indexed.
C32_CounterCountsFiles ==
    (PassReturned /\ pass.by = "initializeCodebase")
        => /\ \A i \in FilesIndexed(vectorDB) : isTextFile(workspace.files[i])
           /\ pass.indexedCount = Cardinality(FilesIndexed(vectorDB))

\* the loop over the files has gone through all of them
LoopDone == pass.pc \in {"Saving", "Finishing"} \/ PassReturned

Holds(db, chunk) == \E n \in 1..Len(db.documents) : db.documents[n] = chunk

HoldsNoneOf(db, i) == \A n \in 1..Len(db.documents) : db.documents[n].path # i

HoldsAllOf(db, i, file) ==
    \A n \in 1..Len(chunkDocument(i, file)) : Holds(db, chunkDocument(i, file)[n])

\* C20 (as stated): a file whose read, stat or embedding request fails never
\* aborts the pass and leaves no record in the store, and the chunks of
\* every other allow-listed file are in the store when the loop is done.
C20_FailingFileSkipped ==
    /\ ~pass.aborted
    /\ LoopDone =>
          \A i \in 1..Len(workspace.files) :
              /\ workspace.files[i] \in {"unreadable", "nostat", "unembeddable"}
                    => HoldsNoneOf(vectorDB, i)
              /\ workspace.files[i] \in Indexable
                    => HoldsAllOf(vectorDB, i, workspace.files[i])

\* the vectors stored with the chunks of the file at position i
VectorsOf(db, i) ==
    {db.vectors[n] : n \in {m \in 1..Len(db.documents) : db.documents[m].path = i}}

\* C20 (amended): no failure on a file aborts the pass.  A file whose read
\* or stat fails leaves no record; a file whose embedding request fails still
\* has its chunks added, with the hash embedding; the chunks of every other
\* allow-listed file are in the store when the loop is done.
C20_FailingFileRecovered ==
    /\ ~pass.aborted
    /\ LoopDone =>
          \A i \in 1..Len(workspace.files) :
              /\ workspace.files[i] \in {"unreadable", "nostat"}
                    => HoldsNoneOf(vectorDB, i)
              /\ workspace.files[i] = "unembeddable"
                    => /\ HoldsAllOf(vectorDB, i, workspace.files[i])
                       /\ VectorsOf(vectorDB, i) = {"hash"}
              /\ workspace.files[i] \in Indexable
                    => /\ HoldsAllOf(vectorDB, i, workspace.files[i])
                       /\ VectorsOf(vectorDB, i) = {"remote"}

\* a pass over an unreadable file followed by a small one is done, and the
\* small file's chunk is in the store
C20_Witness ==
    /\ LoopDone
    /\ workspace.files = <<"unreadable", "small">>
    /\ Holds(vectorDB, Chunk(2, 1))
    /\ HoldsNoneOf(vectorDB, 1)

----------------------------------------------------------------------------
(* Properties of the enumeration of the workspace *)

\* where the files lie that the enumeration is to leave out: under a
\* directory of the standard ignore set, matched by .gitignore, or deeper
\* than the depth cap
Excluded == {".git", "node_modules", "dist", "gitignored", "deep"}

\* C21: the store never holds a chunk of a file that lies under a directory
\* of the standard ignore set, matches a .gitignore pattern or lies deeper
\* than the depth cap.
C21_IgnoredFilesNotIndexed ==
    \A n \in 1..Len(vectorDB.documents) :
        workspace.places[vectorDB.documents[n].path] \notin Excluded

----------------------------------------------------------------------------
(* Properties of chunkDocument *)

RECURSIVE Flatten(_)
\* the chunks' lines, one chunk after the other
Flatten(chunks) ==
    IF chunks = <<>> THEN <<>> ELSE Head(chunks) \o Flatten(Tail(chunks))

RECURSIVE ContentLength(_)
\* the length of a chunk's content: each line and the line break after it
ContentLength(chunk) ==
    IF chunk = <<>> THEN 0 ELSE Head(chunk) + 1 + ContentLength(Tail(chunk))

\* C22: the chunks chunkDocument returns hold the lines of the document in
\* order, each line once (so their line counts sum to the number of lines),
\* and no chunk's accumulated size exceeds the budget unless the chunk is a
\* single line that alone exceeds it.
C22_ChunksPartitionLines ==
    chunkPc = "done" =>
        /\ Len(Flatten(chunkOut)) = Len(chunkIn.lines)
        /\ Flatten(chunkOut) = chunkIn.lines
        /\ \A c \in 1..Len(chunkOut) :
               \/ ContentLength(chunkOut[c]) <= chunkIn.budget
               \/ Len(chunkOut[c]) = 1 /\ chunkOut[c][1] > chunkIn.budget

\* C40: every chunk chunkDocument returns holds at least one line of the
\* document, also when the first line alone exceeds the budget.
C40_NoEmptyChunk ==
    chunkPc = "done" => \A c \in 1..Len(chunkOut) : Len(chunkOut[c]) >= 1

----------------------------------------------------------------------------
(* Properties of the project summary, of context retrieval and of embeddings *)

\* C27: when an initializeCodebase has returned, the summary held in memory
\* is the one its own analysis produced, and so is the one in the context
\* file while that file is there.
C27_SummaryProducedAnew ==
    (pass.pc = "Idle" /\ pass.by = "initializeCodebase" /\ pass.ended = "returned")
        => /\ codebaseContext.kind = "object"
           /\ codebaseContext.made = pass.made
           /\ contextFile.kind = "json" => contextFile.made = pass.made

\* C28: once a getRelevantContext call of the session has read the summary
\* from disk, every later call of the session returns a list that starts
\* with a summary block.
C28_SummaryBlockKept ==
    (context.returned /\ context.earlier) => context.block # "none"

\* C29: in a session that has not indexed yet, in a workspace whose snapshot
\* file is valid, getRelevantContext returns, after the summary block if
\* any, the content of the first documents of the snapshot.
C29_SnapshotLoadedAtStart ==
    ( /\ context.returned
      /\ pass.by = "none"
      /\ vectorDBFile.kind = "json"
      /\ ~Corrupted(vectorDBFile) )
        => context.hits = search(load(EmptyStore, vectorDBFile).store, DefaultK)

\* line 65: the length of the vector generateSimpleHash returns
HashDimension == 384

\* lengths the embedding the endpoint answers with may have: that of the
\* hash vector, or that of an embedding model's vectors
EndpointDimensions == {384, 768}

\* the length of a stored vector, given the length of the endpoint's
\* embeddings (line 39 returns response.data.embedding as it came)
Dimension(vector, served) == IF vector = "hash" THEN HashDimension ELSE served

\* C30: whatever length the endpoint's embeddings have, the vectors the
\* store holds are all of one length.
C30_VectorsSameDimension ==
    \A served \in EndpointDimensions :
        \A m, n \in 1..Len(vectorDB.vectors) :
            Dimension(vectorDB.vectors[m], served) = Dimension(vectorDB.vectors[n], served)


----------------------------------------------------------------------------
(* Properties of the initialization guard, its message and its errors *)

\* an initializeCodebase pass is under way
Initializing == pass.by = "initializeCodebase" /\ pass.pc # "Idle"

\* the step is a call of initializeCodebase that found the flag set
SkippedCall == isInitializing /\ pass.ended # "skipped" /\ pass'.ended = "skipped"

\* C35: isInitializing is set exactly while an initializeCodebase pass is
\* under way, so that a pass is only started when none is active and the
\* flag is clear again once a pass has ended, by a return or by a throw,
\* which was reported; a call made while the flag is set leaves the store,
\* the files, the flag and the running pass as they are.
C35_OnePassAtATime ==
    /\ [](isInitializing <=> Initializing)
    /\ []((pass.pc = "Idle" /\ pass.by = "initializeCodebase"
              /\ pass.ended = "threw") => pass.handled >= 1)
    /\ [][SkippedCall =>
            /\ UNCHANGED <<vectorDB, isInitializing, workspace, vectorDBFile,
                           contextFile, codebaseContext>>
            /\ pass'.pc = pass.pc /\ pass'.i = pass.i
            /\ pass'.made = pass.made]_vars
    /\ [][(~Initializing /\ Initializing') => ~isInitializing /\ isInitializing']_vars

\* a call is skipped during the second pass of a session, the first having
\* ended
C35_Witness ==
    /\ pass.made >= 1
    /\ Initializing
    /\ isInitializing
    /\ pass.ended = "skipped"

\* C36: the message 'Codebase initialization complete!' is shown only once
\* a pass has returned: not while a pass is running, and not after a pass
\* that threw.
C36_NoticeOnlyAfterSuccess ==
    pass.notice => pass.pc = "Idle" /\ pass.ended = "returned"

\* C38: a pass that ended by a throw had its error reported by exactly one
\* call of ErrorHandler.handle.
C38_HandledOnce ==
    (pass.pc = "Idle" /\ pass.ended = "threw") => pass.handled = 1


\* the vectors and documents a load of the snapshot file gives
ReadBack(file) ==
    [ vectors |-> load(EmptyStore, file).store.vectors,
      documents |-> load(EmptyStore, file).store.documents ]

\* C39: once an initializeCodebase has returned, the snapshot file holds the
\* store that is in memory: a load of it gives the vectors and documents of
\* the store (none, when the file is absent or unreadable).
C39_SnapshotIsStore ==
    (PassReturned /\ pass.by = "initializeCodebase")
        => ReadBack(vectorDBFile) =
               [vectors |-> vectorDB.vectors, documents |-> vectorDB.documents]

----------------------------------------------------------------------------
(* Properties of the terminal command manager *)

\* C34: isExecuting is set only while a call of executeCommand is in
\* flight: whenever no call is, whichever way the last one ended, it is
\* clear.
C34_ExecutingOnlyInFlight ==
    terminalManager.isExecuting => termCall.pc = "Waiting"

====
